---- MODULE Spec2Model ----
(***************************************************************************)
(* Device state engine of the thermostat server: the SQLite3 object store  *)
(* (upsertState / getState / mergeValues / getDb) and the fan-timer        *)
(* preservation helpers of src/server/src/utils/fanTimer.ts.               *)
(*                                                                         *)
(* JSON-shaped values are tagged trees: [k |-> kind, v |-> payload].       *)
(* The value column of the states table holds JSON text, modelled as a     *)
(* sequence of tokens produced by JSONstringify and read by JSONparse.     *)
(***************************************************************************)
EXTENDS Integers, Sequences, FiniteSets, TLC

\* ------------------------------------------------------------------------
\* Bounds of the model
\* ------------------------------------------------------------------------
MaxCalls == 2
MaxRev == 2
MaxTicks == 1
TickMs == 1000

\* ------------------------------------------------------------------------
\* JSON-shaped values
\* ------------------------------------------------------------------------
Undefined == [k |-> "undefined"]
Null == [k |-> "null"]
Num(n) == [k |-> "num", v |-> n]
Bool(b) == [k |-> "bool", v |-> b]
Str(s) == [k |-> "str", v |-> s]
Arr(s) == [k |-> "arr", v |-> s]
Obj(f) == [k |-> "obj", v |-> f]

EmptyObj == Obj(<<>>)

\* Property names in the order JSONstringify emits them.
KeyOrder ==
  << "fan_timer_timeout", "fan_control_state", "fan_timer_active",
     "fan_timer_duration",
     "fan_current_speed", "fan_mode", "temperature", "eco", "mode", "leaf",
     "away", "vacation_mode", "away_timestamp", "away_setter",
     "manual_away_timestamp", "auto_away", "target_temperature_type",
     "name", "postal_code", "country", "weather", "current", "location",
     "updatedAt", "temp", "city", "P1,US", "P2,CA" >>

\* Object.keys(o), as a sequence following KeyOrder.
ObjectKeys(o) == SelectSeq(KeyOrder, LAMBDA key : key \in DOMAIN o.v)

\* key in o
HasProp(o, key) == o.k = "obj" /\ key \in DOMAIN o.v

\* o[key]: undefined when the property is absent
GetProp(o, key) == IF HasProp(o, key) THEN o.v[key] ELSE Undefined

\* result[key] = x on a mapping
SetProp(o, key, x) ==
  Obj([j \in (DOMAIN o.v) \cup {key} |-> IF j = key THEN x ELSE o.v[j]])

\* val !== null && typeof val === "object" && !Array.isArray(val)
isObject(val) == val.k = "obj"

\* a ?? b
Coalesce(a, b) == IF a.k \in {"undefined", "null"} THEN b ELSE a

\* { ...a, ...b }
Spread(a, b) ==
  Obj([j \in (DOMAIN a.v) \cup (DOMAIN b.v) |->
         IF j \in DOMAIN b.v THEN b.v[j] ELSE a.v[j]])

\* a === b on JSON-shaped scalars
StrictEq(a, b) == a.k = b.k /\ a = b

\* ------------------------------------------------------------------------
\* JSON text: JSON.stringify and JSON.parse
\* ------------------------------------------------------------------------
LBrace == [k |-> "lbrace"]
RBrace == [k |-> "rbrace"]
LBrack == [k |-> "lbrack"]
RBrack == [k |-> "rbrack"]
KeyTok(s) == [k |-> "key", v |-> s]

\* What JSON.parse throws on text that is not JSON.
SyntaxError == [k |-> "SyntaxError"]

RECURSIVE JSONstringify(_)
RECURSIVE StringifyMembers(_, _)
RECURSIVE StringifyItems(_)

\* Properties whose value is undefined are left out of the text.
StringifyMembers(o, keys) ==
  IF keys = << >> THEN << >>
  ELSE LET key == Head(keys) IN
       (IF o.v[key].k = "undefined" THEN << >>
        ELSE <<KeyTok(key)>> \o JSONstringify(o.v[key]))
       \o StringifyMembers(o, Tail(keys))

\* undefined inside an array is written as null.
StringifyItems(items) ==
  IF items = << >> THEN << >>
  ELSE (IF Head(items).k = "undefined" THEN <<Null>> ELSE JSONstringify(Head(items)))
       \o StringifyItems(Tail(items))

JSONstringify(val) ==
  CASE val.k = "obj" -> <<LBrace>> \o StringifyMembers(val, ObjectKeys(val)) \o <<RBrace>>
    [] val.k = "arr" -> <<LBrack>> \o StringifyItems(val.v) \o <<RBrack>>
    [] OTHER -> <<val>>

ParseFail == [ok |-> FALSE, val |-> Undefined, next |-> 0]

RECURSIVE ParseValue(_, _)
RECURSIVE ParseMembers(_, _, _)
RECURSIVE ParseItems(_, _, _)

ParseMembers(toks, i, acc) ==
  IF i > Len(toks) THEN ParseFail
  ELSE IF toks[i].k = "rbrace" THEN [ok |-> TRUE, val |-> acc, next |-> i + 1]
  ELSE IF toks[i].k = "key" THEN
       LET r == ParseValue(toks, i + 1) IN
       IF r.ok THEN ParseMembers(toks, r.next, SetProp(acc, toks[i].v, r.val))
       ELSE ParseFail
  ELSE ParseFail

ParseItems(toks, i, acc) ==
  IF i > Len(toks) THEN ParseFail
  ELSE IF toks[i].k = "rbrack" THEN [ok |-> TRUE, val |-> Arr(acc), next |-> i + 1]
  ELSE LET r == ParseValue(toks, i) IN
       IF r.ok THEN ParseItems(toks, r.next, Append(acc, r.val)) ELSE ParseFail

ParseValue(toks, i) ==
  IF i > Len(toks) THEN ParseFail
  ELSE CASE toks[i].k \in {"num", "bool", "str", "null"} ->
              [ok |-> TRUE, val |-> toks[i], next |-> i + 1]
         [] toks[i].k = "lbrace" -> ParseMembers(toks, i + 1, EmptyObj)
         [] toks[i].k = "lbrack" -> ParseItems(toks, i + 1, << >>)
         [] OTHER -> ParseFail

JSONparse(text) ==
  LET r == ParseValue(text, 1) IN
  IF r.ok /\ r.next = Len(text) + 1 THEN r.val ELSE SyntaxError

\* ------------------------------------------------------------------------
\* SQLite3Service.mergeValues
\* ------------------------------------------------------------------------
RECURSIVE mergeValues(_, _)
RECURSIVE MergeLoop(_, _, _, _)

\* Variant with a one-level merge, { ...current, ...incoming }.
mergeValuesShallow(current, incoming) ==
  IF incoming.k = "undefined" THEN current
  ELSE IF current.k = "undefined" THEN incoming
  ELSE IF ~isObject(current) \/ ~isObject(incoming) THEN incoming
  ELSE Spread(current, incoming)

\* Variant that appends an incoming sequence to the current one.
mergeValuesConcat(current, incoming) ==
  IF incoming.k = "undefined" THEN current
  ELSE IF current.k = "undefined" THEN incoming
  ELSE IF current.k = "arr" /\ incoming.k = "arr"
  THEN Arr(current.v \o incoming.v)
  ELSE IF ~isObject(current) \/ ~isObject(incoming) THEN incoming
  ELSE Spread(current, incoming)

\* for (const key of Object.keys(incoming)) result[key] = mergeValues(current[key], incoming[key])
MergeLoop(current, incoming, keys, result) ==
  IF keys = << >> THEN result
  ELSE MergeLoop(current, incoming, Tail(keys),
                 SetProp(result, Head(keys),
                         mergeValues(GetProp(current, Head(keys)), incoming.v[Head(keys)])))

mergeValues(current, incoming) ==
  IF incoming.k = "undefined" THEN current
  ELSE IF current.k = "undefined" THEN incoming
  ELSE IF ~isObject(current) \/ ~isObject(incoming) THEN incoming
  ELSE MergeLoop(current, incoming, ObjectKeys(incoming), current)

\* ------------------------------------------------------------------------
\* State
\* ------------------------------------------------------------------------
VARIABLES
  db,            \* SQLite3Service.db: "null" or "open"
  initPromise,   \* SQLite3Service.initPromise: "none", "pending", "db" or "null"
  rows,          \* table states, in rowid order
  call,          \* the upsertState activations: position and arguments
  stmt,          \* the db.run statement each activation handed to the driver
  now,           \* Date.now()
  uncaught,      \* an exception was thrown from a driver callback
  lastWrite,     \* history: the effect of the statement executed last
  pCurrent,      \* mergeValues applied on its own: the stored side
  pIncoming,     \*   the incoming side
  pMerged,       \*   mergeValues(pCurrent, pIncoming)
  pPreserved,    \*   preserveFanTimer(pMerged, pCurrent)
  pText,         \*   the text upsertState binds to the value column
  pStep          \*   how far the evaluation has come

storeVars == << db, initPromise, rows, call, stmt, now, uncaught, lastWrite >>
pureVars == << pCurrent, pIncoming, pMerged, pPreserved, pText, pStep >>

\* State of the availability watchdog. The repository holds the class
\* DeviceAvailabilityWatchdog twice; watchdogClass says which one runs.
VARIABLES
  watchdogClass,        \* "utils" (fanTimer.ts) or "mqtt" (MqttIntegration.ts)
  deviceStates,         \* DeviceAvailabilityWatchdog.deviceStates
  watchdogTimer,        \* DeviceAvailabilityWatchdog.watchdogTimer
  subscriptionManager,  \* DeviceAvailabilityWatchdog.subscriptionManager
  onAvailabilityChange, \* "null", "set", or "throws": set, and it throws
  activeSerials,        \* SubscriptionManager.getActiveSerials()
  handlerCalls,         \* the handler calls made by the last step
  forcedOff,            \* history: serials made unavailable by forceUnavailable
  lastCall,             \* history: per serial, what the handler was last told
  jitter                \* the 1 ms steps the clock has made

watchdogVars ==
  << watchdogClass, deviceStates, watchdogTimer, subscriptionManager,
     onAvailabilityChange, activeSerials, handlerCalls, forcedOff, lastCall,
     jitter >>

\* State of the services built on the object store.
VARIABLES
  deviceOwners,   \* table deviceOwners, in rowid order
  deviceShares,   \* table deviceShares, in rowid order
  weatherCache,   \* table weather: rows (postalCode, country, data)
  pending,        \* statements handed to db.run and not yet executed
  recon,          \* the updateUserAwayStatus activation
  deviceChanged,  \* history: a device wrote since the reconciler last began
  settled         \* history: the table found once a reconciliation was done

reconVars ==
  << deviceOwners, deviceShares, weatherCache, pending, recon, deviceChanged, settled >>

\* State of the MQTT integration of one user.
VARIABLES
  client,             \* MqttIntegration.client: "null" or "connected"
  isReady,            \* MqttIntegration.isReady
  userDeviceSerials,  \* MqttIntegration.userDeviceSerials
  cmd,                \* the handleCommand activation
  published,          \* the messages the last step of the bridge published
  notified,           \* the subscriptionManager.notify calls of that step
  config,             \* MqttIntegration.config: the two publishing switches
  pass,               \* the checkForDeviceChanges activations
  untombstoned        \* serials dropped from the set whose discovery is
                      \* still retained by the broker

bridgeVars ==
  << client, isReady, userDeviceSerials, cmd, published, notified,
     config, pass, untombstoned >>

\* The part of the bridge only the device watcher writes.
watchVars == << config, pass, untombstoned >>

serviceVars == << watchdogVars, reconVars, bridgeVars >>

WatchedSerials == { "B" }
NoDevice == [k |-> "undefined"]
NoTimer == [k |-> "null"]
NoSnapshot == [k |-> "none"]
IdleRecon == [pc |-> "idle", runs |-> 0]

WatchdogIdle ==
  /\ watchdogClass = "utils"
  /\ deviceStates = [s \in WatchedSerials |-> NoDevice]
  /\ watchdogTimer = NoTimer
  /\ subscriptionManager = "null"
  /\ onAvailabilityChange = "null"
  /\ activeSerials = {}
  /\ handlerCalls = << >>
  /\ forcedOff = {}
  /\ lastCall = [s \in WatchedSerials |-> "off"]
  /\ jitter = 0

ReconcilerIdle ==
  /\ deviceOwners = << >>
  /\ deviceShares = << >>
  /\ weatherCache = << >>
  /\ pending = << >>
  /\ recon = IdleRecon
  /\ deviceChanged = FALSE
  /\ settled = NoSnapshot

IdleCommand == [pc |-> "idle", n |-> 0]

\* Overlapping activations of the interval callback that are followed.
MaxPasses == 2
Passes == 1 .. MaxPasses
IdlePass == [pc |-> "idle", currentSerials |-> {}]

\* The constructor's defaults for the two switches.
DefaultConfig == [publishRaw |-> TRUE, homeAssistantDiscovery |-> FALSE]

BridgeConstructed ==
  /\ client = "null"
  /\ isReady = FALSE
  /\ userDeviceSerials = {}
  /\ cmd = IdleCommand
  /\ published = << >>
  /\ notified = << >>
  /\ pass = [p \in Passes |-> IdlePass]
  /\ untombstoned = {}

BridgeIdle ==
  /\ BridgeConstructed
  /\ config = DefaultConfig

ServiceIdle == WatchdogIdle /\ ReconcilerIdle /\ BridgeIdle

Calls == 1 .. MaxCalls
Serials == { "A" }
ObjectKeySet == { "device.A", "shared.A" }
Revisions == 1 .. MaxRev

\* Values written by devices and commands (scenarios S1 and S2 of the
\* specification, a stale fan report, and nested mappings).
WTimer ==
  Obj([fan_timer_timeout |-> Num(9), fan_control_state |-> Bool(TRUE),
       temperature |-> Num(20)])
WTemp == Obj([temperature |-> Num(21)])
WOff == Obj([fan_timer_timeout |-> Num(0)])
WStateOff == Obj([fan_control_state |-> Bool(FALSE)])
WStale == Obj([fan_timer_timeout |-> Num(1), fan_mode |-> Str("auto")])
WEcoMode == Obj([eco |-> Obj([mode |-> Str("manual-eco")])])
WEcoLeaf == Obj([eco |-> Obj([leaf |-> Bool(TRUE)])])

Writes == { WTimer, WTemp, WOff, WStateOff, WStale, WEcoMode, WEcoLeaf }

NoState == [k |-> "null"]
NoStmt == [status |-> "none"]
IdleCall ==
  [pc |-> "idle", serial |-> "A", objectKey |-> "device.A", revision |-> 1,
   timestamp |-> 0, value |-> Undefined, currentState |-> NoState,
   sequential |-> TRUE]
NoWrite == [c |-> 0]

Row(serial, objectKey, revision, timestamp, text, updatedAt) ==
  [serial |-> serial, object_key |-> objectKey, object_revision |-> revision,
   object_timestamp |-> timestamp, value |-> text, updatedAt |-> updatedAt]

\* Tables a previous run of the server can have left in the database file.
InitialTables ==
  { << >>,
    << Row("A", "device.A", 1, 0, JSONstringify(WTimer), 0) >> }

\* Positions of the rows WHERE serial = ? AND object_key = ?
Matching(table, serial, objectKey) ==
  { i \in DOMAIN table :
      table[i].serial = serial /\ table[i].object_key = objectKey }

Min(S) == CHOOSE x \in S : \A y \in S : x <= y

\* ------------------------------------------------------------------------
\* SQLite3Service.getState: db.get returns the first matching row. The
\* SELECT names neither serial nor updatedAt, so both are undefined in the
\* object handed back.
\* ------------------------------------------------------------------------
getState(table, serial, objectKey) ==
  IF Matching(table, serial, objectKey) = {} THEN NoState
  ELSE LET row == table[Min(Matching(table, serial, objectKey))]
           parsedObject == JSONparse(row.value)
       IN IF parsedObject = SyntaxError THEN SyntaxError
          ELSE [k |-> "DeviceObject",
                serial |-> Undefined,
                updatedAt |-> Undefined,
                object_key |-> row.object_key,
                object_revision |-> row.object_revision,
                object_timestamp |-> row.object_timestamp,
                value |-> parsedObject]

\* ------------------------------------------------------------------------
\* Fan timer business logic
\* ------------------------------------------------------------------------
\* Variant that looks at fan_timer_timeout only.
isExplicitlyTurningOffFanTimeoutOnly(incomingValue) ==
  HasProp(incomingValue, "fan_timer_timeout")
    /\ StrictEq(incomingValue.v["fan_timer_timeout"], Num(0))

isExplicitlyTurningOffFan(incomingValue) ==
  \/ HasProp(incomingValue, "fan_timer_timeout")
       /\ StrictEq(incomingValue.v["fan_timer_timeout"], Num(0))
  \/ HasProp(incomingValue, "fan_control_state")
       /\ StrictEq(incomingValue.v["fan_control_state"], Bool(FALSE))

\* Math.floor(Date.now() / 1000)
nowSeconds == now \div 1000

shouldPreserveFanTimer(existingValue, incomingValue) ==
  IF isExplicitlyTurningOffFan(incomingValue) THEN FALSE
  ELSE LET fanTimerTimeout == GetProp(existingValue, "fan_timer_timeout") IN
       IF fanTimerTimeout.k # "num" THEN FALSE
       ELSE fanTimerTimeout.v > nowSeconds /\ fanTimerTimeout.v # 0

FanTimerFields ==
  { "fan_timer_timeout", "fan_control_state", "fan_timer_duration",
    "fan_current_speed", "fan_mode" }

extractFanTimerState(value) ==
  Obj([f \in FanTimerFields |-> GetProp(value, f)])

preserveFanTimer(mergedValue, existingValue) ==
  IF ~shouldPreserveFanTimer(existingValue, mergedValue) THEN mergedValue
  ELSE Spread(mergedValue, extractFanTimerState(existingValue))

\* ------------------------------------------------------------------------
\* SQLite3Service.getDb
\* ------------------------------------------------------------------------
Running == ~uncaught

\* First caller: no connection and no initPromise yet; the open is started.
GetDbStart(c) ==
  /\ Running
  /\ call[c].pc = "getDb"
  /\ db = "null" /\ initPromise = "none"
  /\ initPromise' = "pending"
  /\ UNCHANGED << db, rows, call, stmt, now, uncaught, lastWrite >>
  /\ UNCHANGED pureVars
  /\ UNCHANGED serviceVars

\* new Database(...) and createSchema succeed: this.db = db
InitOk ==
  /\ Running
  /\ initPromise = "pending"
  /\ db' = "open"
  /\ initPromise' = "db"
  /\ UNCHANGED << rows, call, stmt, now, uncaught, lastWrite >>
  /\ UNCHANGED pureVars
  /\ UNCHANGED serviceVars

\* The open or the schema fails: the promise resolves to null and stays set.
InitFail ==
  /\ Running
  /\ initPromise = "pending"
  /\ initPromise' = "null"
  /\ UNCHANGED << db, rows, call, stmt, now, uncaught, lastWrite >>
  /\ UNCHANGED pureVars
  /\ UNCHANGED serviceVars

\* ------------------------------------------------------------------------
\* SQLite3Service.upsertState
\* ------------------------------------------------------------------------
Settled(c) == call[c].pc \in { "resolved", "rejected" }

\* A caller invokes upsertState(serial, objectKey, revision, timestamp, value);
\* the timestamp it passes is the time of the call.
Call(c) ==
  /\ Running
  /\ call[c].pc = "idle"
  /\ \A d \in Calls : d < c => call[d].pc # "idle"
  /\ \E serial \in Serials, objectKey \in ObjectKeySet,
        revision \in Revisions, value \in Writes :
       call' = [call EXCEPT ![c] =
                  [pc |-> "getDb", serial |-> serial, objectKey |-> objectKey,
                   revision |-> revision, timestamp |-> now, value |-> value,
                   currentState |-> NoState,
                   sequential |-> \A d \in Calls : d < c => Settled(d)]]
  /\ UNCHANGED << db, initPromise, rows, stmt, now, uncaught, lastWrite >>
  /\ UNCHANGED pureVars
  /\ UNCHANGED serviceVars

\* const db = await this.getDb(), with a connection
GetDbOpen(c) ==
  /\ Running
  /\ call[c].pc = "getDb"
  /\ db = "open"
  /\ call' = [call EXCEPT ![c].pc = "getState"]
  /\ UNCHANGED << db, initPromise, rows, stmt, now, uncaught, lastWrite >>
  /\ UNCHANGED pureVars
  /\ UNCHANGED serviceVars

\* if (!db) { console.warn(...); return; }
GetDbNull(c) ==
  /\ Running
  /\ call[c].pc = "getDb"
  /\ db = "null" /\ initPromise = "null"
  /\ call' = [call EXCEPT ![c].pc = "resolved"]
  /\ UNCHANGED << db, initPromise, rows, stmt, now, uncaught, lastWrite >>
  /\ UNCHANGED pureVars
  /\ UNCHANGED serviceVars

\* const currentState = await this.getState(serial, objectKey):
\* the driver runs the SELECT; JSON.parse throwing inside the driver
\* callback is an uncaught exception and the promise never settles.
DbGet(c) ==
  /\ Running
  /\ call[c].pc = "getState"
  /\ LET got == getState(rows, call[c].serial, call[c].objectKey) IN
     IF got = SyntaxError
     THEN /\ uncaught' = TRUE
          /\ call' = [call EXCEPT ![c].pc = "hung"]
     ELSE /\ call' = [call EXCEPT ![c].pc = "run", ![c].currentState = got]
          /\ UNCHANGED uncaught
  /\ UNCHANGED << db, initPromise, rows, stmt, now, lastWrite >>
  /\ UNCHANGED pureVars
  /\ UNCHANGED serviceVars

\* db.get reports err: reject(err), caught by upsertState and rethrown.
DbGetError(c) ==
  /\ Running
  /\ call[c].pc = "getState"
  /\ call' = [call EXCEPT ![c].pc = "rejected"]
  /\ UNCHANGED << db, initPromise, rows, stmt, now, uncaught, lastWrite >>
  /\ UNCHANGED pureVars
  /\ UNCHANGED serviceVars

\* Variant of the UPDATE branch that binds the incoming value alone.
UpdateTextIncoming(currentValue, value) == JSONstringify(value)

\* JSON.stringify(mergedValue) of the UPDATE branch
UpdateText(currentValue, value) ==
  JSONstringify(mergeValues(Coalesce(currentValue, EmptyObj),
                            Coalesce(value, EmptyObj)))

\* JSON.stringify(value) of the INSERT branch
InsertText(value) == JSONstringify(value)

\* The statement upsertState hands to db.run.
Statement(c) ==
  IF call[c].currentState # NoState
  THEN [status |-> "pending", kind |-> "UPDATE",
        object_revision |-> call[c].revision,
        object_timestamp |-> call[c].timestamp,
        value |-> UpdateText(call[c].currentState.value, call[c].value),
        updatedAt |-> now,
        serial |-> call[c].serial, object_key |-> call[c].objectKey]
  ELSE [status |-> "pending", kind |-> "INSERT",
        object_revision |-> call[c].revision,
        object_timestamp |-> call[c].timestamp,
        value |-> InsertText(call[c].value),
        updatedAt |-> now,
        serial |-> call[c].serial, object_key |-> call[c].objectKey]

\* db.run(sql, params, callback) is handed to the driver and upsertState
\* returns: the promise resolves without waiting for the callback.
Run(c) ==
  /\ Running
  /\ call[c].pc = "run"
  /\ stmt' = [stmt EXCEPT ![c] = Statement(c)]
  /\ call' = [call EXCEPT ![c].pc = "resolved"]
  /\ UNCHANGED << db, initPromise, rows, now, uncaught, lastWrite >>
  /\ UNCHANGED pureVars
  /\ UNCHANGED serviceVars

\* The table after the driver has executed statement s.
Execute(table, s) ==
  IF s.kind = "UPDATE"
  THEN [i \in DOMAIN table |->
          IF i \in Matching(table, s.serial, s.object_key)
          THEN [table[i] EXCEPT !.object_revision = s.object_revision,
                                !.object_timestamp = s.object_timestamp,
                                !.value = s.value,
                                !.updatedAt = s.updatedAt]
          ELSE table[i]]
  ELSE Append(table, Row(s.serial, s.object_key, s.object_revision,
                         s.object_timestamp, s.value, s.updatedAt))

\* The driver executes a pending statement (pending statements of one
\* connection run in no fixed order); the callback gets no error.
DbRun(c) ==
  /\ Running
  /\ stmt[c].status = "pending"
  /\ rows' = Execute(rows, stmt[c])
  /\ stmt' = [stmt EXCEPT ![c].status = "done"]
  /\ lastWrite' =
       [c |-> c, serial |-> stmt[c].serial, object_key |-> stmt[c].object_key,
        incoming |-> call[c].value, revision |-> call[c].revision,
        pre |-> getState(rows, stmt[c].serial, stmt[c].object_key),
        post |-> getState(rows', stmt[c].serial, stmt[c].object_key),
        at |-> now]
  /\ UNCHANGED << db, initPromise, call, now, uncaught >>
  /\ UNCHANGED pureVars
  /\ UNCHANGED serviceVars

\* The statement fails: the callback throws err, outside any try block.
DbRunError(c) ==
  /\ Running
  /\ stmt[c].status = "pending"
  /\ stmt' = [stmt EXCEPT ![c].status = "failed"]
  /\ uncaught' = TRUE
  /\ UNCHANGED << db, initPromise, rows, call, now, lastWrite >>
  /\ UNCHANGED pureVars
  /\ UNCHANGED serviceVars

\* Time passes.
Tick ==
  /\ Running
  /\ now + TickMs <= MaxTicks * TickMs
  /\ now' = now + TickMs
  /\ UNCHANGED << db, initPromise, rows, call, stmt, uncaught, lastWrite >>
  /\ UNCHANGED pureVars
  /\ UNCHANGED serviceVars

\* ------------------------------------------------------------------------
\* Specification of the object store
\* ------------------------------------------------------------------------
vars == << db, initPromise, rows, call, stmt, now, uncaught, lastWrite,
          pCurrent, pIncoming, pMerged, pPreserved, pText, pStep,
          serviceVars >>

StoreInit ==
  /\ db = "null"
  /\ initPromise = "none"
  /\ rows \in InitialTables
  /\ call = [c \in Calls |-> IdleCall]
  /\ stmt = [c \in Calls |-> NoStmt]
  /\ now = 0
  /\ uncaught = FALSE
  /\ lastWrite = NoWrite

PureIdle ==
  /\ pCurrent = Undefined
  /\ pIncoming = Undefined
  /\ pMerged = Undefined
  /\ pPreserved = Undefined
  /\ pText = << >>
  /\ pStep = "off"

Init == StoreInit /\ PureIdle /\ ServiceIdle

Next ==
  \/ InitOk
  \/ InitFail
  \/ Tick
  \/ \E c \in Calls : Call(c)
  \/ \E c \in Calls : GetDbStart(c)
  \/ \E c \in Calls : GetDbOpen(c)
  \/ \E c \in Calls : GetDbNull(c)
  \/ \E c \in Calls : DbGet(c)
  \/ \E c \in Calls : DbGetError(c)
  \/ \E c \in Calls : Run(c)
  \/ \E c \in Calls : DbRun(c)
  \/ \E c \in Calls : DbRunError(c)

Spec == Init /\ [][Next]_vars

\* ------------------------------------------------------------------------
\* mergeValues, preserveFanTimer and the bound text evaluated on their own
\* ------------------------------------------------------------------------
WRunningOff ==
  Obj([fan_timer_timeout |-> Num(9), fan_control_state |-> Bool(FALSE)])
WExpired ==
  Obj([fan_timer_timeout |-> Num(1), fan_control_state |-> Bool(TRUE),
       fan_mode |-> Str("on")])
WEcoScalar == Obj([eco |-> Num(5)])
WList == Obj([temperature |-> Arr(<< Num(1), Num(2) >>)])
WListShort == Obj([temperature |-> Arr(<< Num(3) >>), mode |-> Null])

SampleCurrent ==
  { Undefined, Null, Num(1), Str("s"), Arr(<< Num(1) >>), EmptyObj,
    WTimer, WTemp, WRunningOff, WExpired, WEcoMode, WEcoScalar, WList }

SampleIncoming ==
  { Undefined, Null, Num(2), Arr(<< Num(2), Num(3) >>), EmptyObj,
    WTemp, WOff, WStateOff, WStale, WEcoMode, WEcoLeaf, WListShort }

SampleNow == { t * TickMs : t \in 0 .. MaxTicks }

ValuesInit ==
  /\ db = "null"
  /\ initPromise = "none"
  /\ rows = << >>
  /\ call = [c \in Calls |-> IdleCall]
  /\ stmt = [c \in Calls |-> NoStmt]
  /\ now \in SampleNow
  /\ uncaught = FALSE
  /\ lastWrite = NoWrite
  /\ pCurrent \in SampleCurrent
  /\ pIncoming \in SampleIncoming
  /\ pMerged = Undefined
  /\ pPreserved = Undefined
  /\ pText = << >>
  /\ pStep = "start"
  /\ ServiceIdle

\* mergedValue = mergeValues(current, incoming)
EvalMerge ==
  /\ pStep = "start"
  /\ pMerged' = mergeValues(pCurrent, pIncoming)
  /\ pStep' = "merged"
  /\ UNCHANGED << pCurrent, pIncoming, pPreserved, pText >>
  /\ UNCHANGED storeVars
  /\ UNCHANGED serviceVars

\* preserveFanTimer(mergedValue, existingValue) on two mappings
EvalPreserve ==
  /\ pStep = "merged"
  /\ isObject(pCurrent) /\ isObject(pIncoming)
  /\ pPreserved' = preserveFanTimer(pMerged, pCurrent)
  /\ pStep' = "preserved"
  /\ UNCHANGED << pCurrent, pIncoming, pMerged, pText >>
  /\ UNCHANGED storeVars
  /\ UNCHANGED serviceVars

\* The text upsertState binds for value: the INSERT branch when no row was
\* read, the UPDATE branch otherwise.
EvalText ==
  /\ \/ pStep = "preserved"
     \/ pStep = "merged" /\ pCurrent = Undefined /\ isObject(pIncoming)
  /\ pText' = IF pCurrent = Undefined THEN InsertText(pIncoming)
              ELSE UpdateText(pCurrent, pIncoming)
  /\ pStep' = "text"
  /\ UNCHANGED << pCurrent, pIncoming, pMerged, pPreserved >>
  /\ UNCHANGED storeVars
  /\ UNCHANGED serviceVars

\* The same write applied once more: upsertState reads the stored value
\* back and binds the text of the UPDATE branch.
EvalAgain ==
  /\ pStep \in { "text", "again" }
  /\ pCurrent' = JSONparse(pText)
  /\ pText' = UpdateText(pCurrent', pIncoming)
  /\ pStep' = "again"
  /\ UNCHANGED << pIncoming, pMerged, pPreserved >>
  /\ UNCHANGED storeVars
  /\ UNCHANGED serviceVars

ValuesNext == EvalMerge \/ EvalPreserve \/ EvalText \/ EvalAgain

SpecValues == ValuesInit /\ [][ValuesNext]_vars

\* ------------------------------------------------------------------------
\* Properties
\* ------------------------------------------------------------------------
StoredRevision(table, serial, objectKey) ==
  IF getState(table, serial, objectKey) = NoState THEN 0
  ELSE getState(table, serial, objectKey).object_revision

\* C1: for every (serial, object_key) the stored object_revision never
\* decreases, whatever revisions the upsertState calls bring.
C1_RevisionNeverDecreases ==
  [][\A serial \in Serials, objectKey \in ObjectKeySet :
       StoredRevision(rows', serial, objectKey)
         >= StoredRevision(rows, serial, objectKey)]_vars

\* The activations that were started for a key, and whether all of them
\* have resolved and had their statement executed.
CallsOn(serial, objectKey) ==
  { c \in Calls : call[c].pc # "idle" /\ call[c].serial = serial
                  /\ call[c].objectKey = objectKey }

AllApplied ==
  \A c \in Calls :
    call[c].pc # "idle" => call[c].pc = "resolved" /\ stmt[c].status = "done"

StartsAbsent(serial, objectKey) ==
  \A table \in InitialTables : Matching(table, serial, objectKey) = {}

Orders(S) ==
  { o \in [1 .. Cardinality(S) -> S] : \A x \in S : \E i \in DOMAIN o : o[i] = x }

Ascending(S) ==
  CHOOSE o \in Orders(S) : \A i, j \in DOMAIN o : i < j => o[i] < o[j]

RECURSIVE FoldWrites(_, _)
FoldWrites(start, order) ==
  IF order = << >> THEN start
  ELSE FoldWrites(mergeValues(start, call[Head(order)].value), Tail(order))

\* C2: two concurrent upserts of one key are serialized: once both are
\* applied the stored value is what applying them in some serial order
\* gives, so neither write is lost.
C2_ConcurrentUpsertsSerialized ==
  \A serial \in Serials, objectKey \in ObjectKeySet :
    ( /\ StartsAbsent(serial, objectKey)
      /\ AllApplied
      /\ Cardinality(CallsOn(serial, objectKey)) = 2
      /\ \E c \in CallsOn(serial, objectKey) : ~call[c].sequential )
    => /\ getState(rows, serial, objectKey) # NoState
       /\ getState(rows, serial, objectKey).value
            \in { FoldWrites(Undefined, o) : o \in Orders(CallsOn(serial, objectKey)) }

NoFanFields(value) == (DOMAIN value.v) \cap FanTimerFields = {}

\* C3: writes w1..wn made one after another to a key that starts absent,
\* none with fan-timer fields, leave the left fold of mergeValues over
\* w1..wn as the stored value.
C3_SequentialWritesFold ==
  \A serial \in Serials, objectKey \in ObjectKeySet :
    ( /\ StartsAbsent(serial, objectKey)
      /\ AllApplied
      /\ CallsOn(serial, objectKey) # {}
      /\ \A c \in CallsOn(serial, objectKey) :
           call[c].sequential /\ NoFanFields(call[c].value) )
    => /\ getState(rows, serial, objectKey) # NoState
       /\ getState(rows, serial, objectKey).value
            = FoldWrites(Undefined, Ascending(CallsOn(serial, objectKey)))

\* The reference deep merge of the specification (4.A, merge rule).
RECURSIVE DeepMerge(_, _)
DeepMerge(current, incoming) ==
  IF incoming = Undefined THEN current
  ELSE IF current = Undefined THEN incoming
  ELSE IF current.k = "obj" /\ incoming.k = "obj"
  THEN Obj([key \in (DOMAIN current.v) \cup (DOMAIN incoming.v) |->
              DeepMerge(IF key \in DOMAIN current.v THEN current.v[key] ELSE Undefined,
                        IF key \in DOMAIN incoming.v THEN incoming.v[key] ELSE Undefined)])
  ELSE incoming

\* C4: mergeValues(current, incoming) is the reference deep merge: absent
\* incoming gives current, absent current gives incoming, a scalar, a
\* sequence or null on either side gives incoming, and two mappings give
\* the mapping over the union of their keys with each key merged.
C4_MergeIsDeepMerge ==
  pStep \in { "merged", "preserved", "text" }
    => pMerged = DeepMerge(pCurrent, pIncoming)

\* C4 witness: two mappings with a nested mapping merged key by key, and a
\* sequence replaced by the incoming one.
C4_Witness ==
  \/ /\ pStep = "merged" /\ pCurrent = WEcoMode /\ pIncoming = WEcoLeaf
     /\ pMerged = Obj([eco |-> Obj([mode |-> Str("manual-eco"), leaf |-> Bool(TRUE)])])
  \/ /\ pStep = "merged" /\ pCurrent = WList /\ pIncoming = WListShort
     /\ pMerged = WListShort

\* An active fan timer, in the words of the specification.
ActiveFanTimer(value, nowMs) ==
  /\ HasProp(value, "fan_timer_timeout")
  /\ value.v["fan_timer_timeout"].k = "num"
  /\ value.v["fan_timer_timeout"].v # 0
  /\ value.v["fan_timer_timeout"].v > nowMs \div 1000

\* An explicit fan-off, in the words of the specification.
ExplicitFanOff(incoming) ==
  /\ incoming.k = "obj"
  /\ \/ "fan_timer_timeout" \in DOMAIN incoming.v
          /\ incoming.v["fan_timer_timeout"] = Num(0)
     \/ "fan_control_state" \in DOMAIN incoming.v
          /\ incoming.v["fan_control_state"] = Bool(FALSE)

\* C5: a write that is not an explicit fan-off, applied to a stored value
\* with an active fan timer, leaves the five fan-timer fields as they were
\* stored and every other field deep-merged.
C5_ActiveTimerPreserved ==
  ( /\ lastWrite.c # 0
    /\ lastWrite.pre # NoState
    /\ ActiveFanTimer(lastWrite.pre.value, lastWrite.at)
    /\ ~ExplicitFanOff(lastWrite.incoming) )
  => /\ \A f \in FanTimerFields :
          GetProp(lastWrite.post.value, f) = GetProp(lastWrite.pre.value, f)
     /\ \A f \in (DOMAIN lastWrite.post.value.v) \ FanTimerFields :
          lastWrite.post.value.v[f]
            = GetProp(DeepMerge(lastWrite.pre.value, lastWrite.incoming), f)

\* C6: an explicit fan-off is never blocked: the fan-timer hook returns the
\* merged value as it is, and the text bound for the row carries the fan
\* fields of the incoming value.
C6_ExplicitFanOffNotBlocked ==
  ( pStep \in { "preserved", "text" } /\ ExplicitFanOff(pIncoming) )
  => /\ pCurrent.k = "obj" => pPreserved = pMerged
     /\ pStep = "text" =>
          \A f \in FanTimerFields \cap DOMAIN pIncoming.v :
            GetProp(JSONparse(pText), f) = pIncoming.v[f]

\* C6 witness: {fan_timer_timeout: 0} over a running timer is stored as 0,
\* and {fan_control_state: false} over a running timer is stored as false.
C6_Witness ==
  /\ pStep = "text"
  /\ pCurrent = WTimer
  /\ ActiveFanTimer(pCurrent, now)
  /\ \/ pIncoming = WOff
          /\ GetProp(JSONparse(pText), "fan_timer_timeout") = Num(0)
     \/ pIncoming = WStateOff
          /\ GetProp(JSONparse(pText), "fan_control_state") = Bool(FALSE)

\* C7: the states table never holds more than one row for a
\* (serial, object_key).
C7_OneRowPerKey ==
  \A serial \in Serials, objectKey \in ObjectKeySet :
    Cardinality(Matching(rows, serial, objectKey)) <= 1

\* C8: once upsertState has returned to its caller, a getState of the same
\* key returns an object whose value includes the write.
C8_ReturnedWriteVisible ==
  \A c \in Calls :
    ( /\ call[c].pc = "resolved"
      /\ db = "open"
      /\ ~uncaught
      /\ \A d \in Calls \ {c} :
           call[d].pc = "idle" \/ call[d].objectKey # call[c].objectKey )
    => /\ getState(rows, call[c].serial, call[c].objectKey) # NoState
       /\ mergeValues(getState(rows, call[c].serial, call[c].objectKey).value,
                      call[c].value)
            = getState(rows, call[c].serial, call[c].objectKey).value

\* C9: upsertState reports success only when there is a connection and the
\* INSERT or UPDATE did not fail; otherwise the caller gets an error.
C9_SuccessOnlyIfPersisted ==
  \A c \in Calls :
    call[c].pc = "resolved"
      => db = "open" /\ stmt[c].status \in { "pending", "done" }

Max(a, b) == IF a >= b THEN a ELSE b

\* C10: on an existing object the stored revision becomes
\* max(existing, incoming) when the merge left the value as it was, and at
\* least existing + 1 when the merge changed it.
C10_RevisionPolicy ==
  ( lastWrite.c # 0 /\ lastWrite.pre # NoState )
  => IF lastWrite.post.value = lastWrite.pre.value
     THEN lastWrite.post.object_revision
            = Max(lastWrite.pre.object_revision, lastWrite.revision)
     ELSE lastWrite.post.object_revision >= lastWrite.pre.object_revision + 1

\* ------------------------------------------------------------------------
\* DeviceAvailabilityWatchdog
\* ------------------------------------------------------------------------
MaxSweeps == 14
MaxJitter == 1

\* utils/DeviceAvailabilityWatchdog
TIMEOUT_MS == 300000
CHECK_INTERVAL_MS == 30000
\* the class of the same name next to MqttIntegration
MqttTIMEOUT_MS == 125000
MqttCHECK_INTERVAL_MS == 10000

TimeoutMs == IF watchdogClass = "utils" THEN TIMEOUT_MS ELSE MqttTIMEOUT_MS
CheckIntervalMs ==
  IF watchdogClass = "utils" THEN CHECK_INTERVAL_MS ELSE MqttCHECK_INTERVAL_MS

\* What the watchdog never touches.
restOfWatchdog ==
  << db, initPromise, rows, call, stmt, lastWrite, pureVars, reconVars,
     bridgeVars >>

DeviceAvailabilityState(serial, lastSeen, isAvailable) ==
  [k |-> "state", serial |-> serial, lastSeen |-> lastSeen,
   isAvailable |-> isAvailable]

\* getAvailability: state?.isAvailable ?? false
getAvailability(serial) ==
  IF deviceStates[serial] = NoDevice THEN FALSE
  ELSE deviceStates[serial].isAvailable

Known(serial) == deviceStates[serial] # NoDevice

\* The handler calls of a step that concern one serial.
CallsAbout(calls, serial) == SelectSeq(calls, LAMBDA c : c[1] = serial)

\* Variant of notifyAvailabilityChange with no try/catch around the call.
notifyAvailabilityChangeUncaught(calls) ==
  IF onAvailabilityChange = "null"
  THEN [made |-> << >>, thrown |-> FALSE]
  ELSE [made |-> calls,
        thrown |-> onAvailabilityChange = "throws" /\ calls # << >>]

\* notifyAvailabilityChange: the handler is called only when one is set,
\* inside try/catch; made are the calls, thrown says whether an exception
\* of the handler leaves the method.
notifyAvailabilityChange(calls) ==
  IF onAvailabilityChange = "null"
  THEN [made |-> << >>, thrown |-> FALSE]
  ELSE [made |-> calls, thrown |-> FALSE]

\* History of the calls about one serial: "none" before the first call,
\* then "true" or "false", the value of the last call; "broken" once two
\* calls in a row had the same value or the first one was false; "late"
\* when the serial was known before a handler was set. "off": not recorded.
callRecorded(prev, value) ==
  IF prev \in { "off", "late", "broken" } THEN prev
  ELSE IF prev = "none" THEN (IF value THEN "true" ELSE "broken")
  ELSE IF (prev = "true") = value THEN "broken"
  ELSE IF value THEN "true" ELSE "false"

RECURSIVE callsRecorded(_, _)
callsRecorded(prev, calls) ==
  IF calls = << >> THEN prev
  ELSE callsRecorded(callRecorded(prev, Head(calls)[2]), Tail(calls))

recordCalls(calls) ==
  [s \in DOMAIN lastCall |-> callsRecorded(lastCall[s], CallsAbout(calls, s))]

\* Variant of markSeen that reports every heartbeat to the handler.
markSeenCallsAlways(state, serial) == << << serial, TRUE >> >>

\* The handler calls markSeen makes: one for an unknown serial, one for a
\* serial that was unavailable, none otherwise.
markSeenCalls(state, serial) ==
  IF state = NoDevice THEN << << serial, TRUE >> >>
  ELSE IF ~state.isAvailable THEN << << serial, TRUE >> >>
  ELSE << >>

\* Variant of markSeen that leaves the lastSeen of a known serial as it was.
markSeenStateStale(state, serial) ==
  IF state = NoDevice THEN DeviceAvailabilityState(serial, now, TRUE)
  ELSE [state EXCEPT !.isAvailable = TRUE]

\* The state markSeen leaves in the map.
markSeenState(state, serial) ==
  IF state = NoDevice THEN DeviceAvailabilityState(serial, now, TRUE)
  ELSE [state EXCEPT !.lastSeen = now, !.isAvailable = TRUE]

MarkSeen(serial) ==
  /\ deviceStates' =
       [deviceStates EXCEPT ![serial] = markSeenState(@, serial)]
  /\ LET outcome ==
           notifyAvailabilityChange(markSeenCalls(deviceStates[serial], serial))
     IN /\ handlerCalls' = outcome.made
        /\ uncaught' = (uncaught \/ outcome.thrown)
  /\ lastCall' = recordCalls(handlerCalls')
  /\ forcedOff' = forcedOff \ { serial }
  /\ UNCHANGED << watchdogClass, watchdogTimer, subscriptionManager,
                  onAvailabilityChange, activeSerials, jitter >>
  /\ UNCHANGED << now, restOfWatchdog >>

\* start(): a second start while the timer runs only warns.
Start ==
  /\ IF watchdogTimer # NoTimer
     THEN UNCHANGED << watchdogTimer, subscriptionManager >>
     ELSE /\ watchdogTimer' =
               [k |-> "timer", startedAt |-> now,
                next |-> now + CheckIntervalMs]
          /\ subscriptionManager' =
               IF watchdogClass = "utils" THEN "set" ELSE subscriptionManager
  /\ handlerCalls' = << >>
  /\ UNCHANGED << uncaught, lastCall >>
  /\ UNCHANGED << watchdogClass, deviceStates, onAvailabilityChange,
                  activeSerials, forcedOff, jitter >>
  /\ UNCHANGED << now, restOfWatchdog >>

Stop ==
  /\ watchdogTimer' = NoTimer
  /\ handlerCalls' = << >>
  /\ UNCHANGED << uncaught, lastCall >>
  /\ UNCHANGED << watchdogClass, deviceStates, subscriptionManager,
                  onAvailabilityChange, activeSerials, forcedOff, jitter >>
  /\ UNCHANGED << now, restOfWatchdog >>

\* What the history makes of a handler set when there was none.
handlerSet ==
  [s \in DOMAIN lastCall |->
     IF onAvailabilityChange = "null" /\ lastCall[s] = "none" /\ Known(s)
     THEN "late" ELSE lastCall[s]]

SetAvailabilityChangeHandler ==
  /\ onAvailabilityChange' = "set"
  /\ handlerCalls' = << >>
  /\ lastCall' = handlerSet
  /\ UNCHANGED uncaught
  /\ UNCHANGED << watchdogClass, deviceStates, watchdogTimer,
                  subscriptionManager, activeSerials, forcedOff, jitter >>
  /\ UNCHANGED << now, restOfWatchdog >>

\* setAvailabilityChangeHandler with a callback that throws when called.
SetThrowingHandler ==
  /\ onAvailabilityChange' = "throws"
  /\ handlerCalls' = << >>
  /\ lastCall' = handlerSet
  /\ UNCHANGED uncaught
  /\ UNCHANGED << watchdogClass, deviceStates, watchdogTimer,
                  subscriptionManager, activeSerials, forcedOff, jitter >>
  /\ UNCHANGED << now, restOfWatchdog >>

\* The sweep never finds a timeout.
isTimedOutNever(state) == FALSE

\* now - state.lastSeen > this.TIMEOUT_MS
isTimedOut(state) == now - state.lastSeen > TimeoutMs

\* First loop of checkDeviceTimeouts (utils class only): serials with an
\* active long-poll subscription count as seen.
Refreshes(serial) ==
  /\ watchdogClass = "utils"
  /\ subscriptionManager # "null"
  /\ serial \in activeSerials

refreshState(state, serial) ==
  IF ~Refreshes(serial) THEN state
  ELSE IF state = NoDevice THEN DeviceAvailabilityState(serial, now, TRUE)
  ELSE [state EXCEPT !.lastSeen = now, !.isAvailable = TRUE]

\* Variant of the first loop that reports every subscribed serial.
refreshCallsAlways(state, serial) ==
  IF ~Refreshes(serial) THEN << >> ELSE << << serial, TRUE >> >>

refreshCalls(state, serial) ==
  IF ~Refreshes(serial) THEN << >>
  ELSE IF state = NoDevice THEN << << serial, TRUE >> >>
  ELSE IF ~state.isAvailable THEN << << serial, TRUE >> >>
  ELSE << >>

\* Second loop: an available device is marked unavailable on timeout.
TimesOut(state) ==
  /\ state # NoDevice
  /\ state.isAvailable
  /\ isTimedOut(state)

\* Variant of the second loop that drops a timed-out serial from the map.
timeoutStateForgets(state) ==
  IF TimesOut(state) THEN NoDevice ELSE state

timeoutState(state) ==
  IF TimesOut(state) THEN [state EXCEPT !.isAvailable = FALSE] ELSE state

timeoutCalls(state, serial) ==
  IF TimesOut(state) THEN << << serial, FALSE >> >> ELSE << >>

\* The first loop, over the serials S still to visit: sweep is the map, the
\* calls made so far and whether an exception has left the method (the
\* loop then goes no further).
RECURSIVE RefreshLoop(_, _)
RefreshLoop(sweep, S) ==
  IF S = {} \/ sweep.thrown THEN sweep
  ELSE LET serial == CHOOSE x \in S : TRUE
           outcome ==
             notifyAvailabilityChange(
               refreshCalls(sweep.states[serial], serial))
       IN RefreshLoop(
            [states |-> [sweep.states EXCEPT
                           ![serial] = refreshState(@, serial)],
             made |-> sweep.made \o outcome.made,
             thrown |-> outcome.thrown],
            S \ { serial })

\* The second loop, over the entries of the map.
RECURSIVE TimeoutLoop(_, _)
TimeoutLoop(sweep, S) ==
  IF S = {} \/ sweep.thrown THEN sweep
  ELSE LET serial == CHOOSE x \in S : TRUE
           outcome ==
             notifyAvailabilityChange(
               timeoutCalls(sweep.states[serial], serial))
       IN TimeoutLoop(
            [states |-> [sweep.states EXCEPT ![serial] = timeoutState(@)],
             made |-> sweep.made \o outcome.made,
             thrown |-> outcome.thrown],
            S \ { serial })

\* One run of checkDeviceTimeouts, when the interval timer is due.
CheckDeviceTimeouts ==
  /\ watchdogTimer # NoTimer
  /\ now = watchdogTimer.next
  /\ LET refreshed ==
           RefreshLoop([states |-> deviceStates, made |-> << >>,
                        thrown |-> FALSE],
                       DOMAIN deviceStates)
         swept == TimeoutLoop(refreshed, DOMAIN deviceStates)
     IN /\ deviceStates' = swept.states
        /\ handlerCalls' = swept.made
        /\ uncaught' = (uncaught \/ swept.thrown)
  /\ lastCall' = recordCalls(handlerCalls')
  /\ forcedOff' = { s \in forcedOff : ~Refreshes(s) }
  /\ watchdogTimer' = [watchdogTimer EXCEPT !.next = @ + CheckIntervalMs]
  /\ UNCHANGED << watchdogClass, subscriptionManager, onAvailabilityChange,
                  activeSerials, jitter >>
  /\ UNCHANGED << now, restOfWatchdog >>

ForceUnavailable(serial) ==
  /\ IF getAvailability(serial)
     THEN /\ deviceStates' =
               [deviceStates EXCEPT ![serial].isAvailable = FALSE]
          /\ LET outcome ==
                   notifyAvailabilityChange(<< << serial, FALSE >> >>)
             IN /\ handlerCalls' = outcome.made
                /\ uncaught' = (uncaught \/ outcome.thrown)
          /\ forcedOff' = forcedOff \cup { serial }
     ELSE /\ handlerCalls' = << >>
          /\ UNCHANGED << deviceStates, forcedOff, uncaught >>
  /\ lastCall' = recordCalls(handlerCalls')
  /\ UNCHANGED << watchdogClass, watchdogTimer, subscriptionManager,
                  onAvailabilityChange, activeSerials, jitter >>
  /\ UNCHANGED << now, restOfWatchdog >>

\* A device opens a long poll: its serial is in getActiveSerials().
Subscribe(serial) ==
  /\ serial \notin activeSerials
  /\ activeSerials' = activeSerials \cup { serial }
  /\ handlerCalls' = << >>
  /\ UNCHANGED << uncaught, lastCall >>
  /\ UNCHANGED << watchdogClass, deviceStates, watchdogTimer,
                  subscriptionManager, onAvailabilityChange, forcedOff,
                  jitter >>
  /\ UNCHANGED << now, restOfWatchdog >>

\* The long poll ends (delivery, timeout or disconnect).
Unsubscribe(serial) ==
  /\ serial \in activeSerials
  /\ activeSerials' = activeSerials \ { serial }
  /\ handlerCalls' = << >>
  /\ UNCHANGED << uncaught, lastCall >>
  /\ UNCHANGED << watchdogClass, deviceStates, watchdogTimer,
                  subscriptionManager, onAvailabilityChange, forcedOff,
                  jitter >>
  /\ UNCHANGED << now, restOfWatchdog >>

\* Time passes, never beyond the moment the interval timer is due.
Elapse(ms) ==
  /\ ms > 0
  /\ now + ms <= MaxSweeps * CheckIntervalMs
  /\ watchdogTimer # NoTimer => now + ms <= watchdogTimer.next
  /\ now' = now + ms
  /\ handlerCalls' = << >>
  /\ UNCHANGED << uncaught, lastCall >>
  /\ UNCHANGED << watchdogClass, deviceStates, watchdogTimer,
                  subscriptionManager, onAvailabilityChange, activeSerials,
                  forcedOff, jitter >>
  /\ UNCHANGED restOfWatchdog

\* One millisecond passes.
ElapseMs ==
  /\ jitter < MaxJitter
  /\ now + 1 <= MaxSweeps * CheckIntervalMs
  /\ watchdogTimer # NoTimer => now + 1 <= watchdogTimer.next
  /\ now' = now + 1
  /\ jitter' = jitter + 1
  /\ handlerCalls' = << >>
  /\ UNCHANGED << uncaught, lastCall >>
  /\ UNCHANGED << watchdogClass, deviceStates, watchdogTimer,
                  subscriptionManager, onAvailabilityChange, activeSerials,
                  forcedOff >>
  /\ UNCHANGED restOfWatchdog

\* Time passes up to the next run of the timer, or one interval without one.
ElapseInterval ==
  IF watchdogTimer # NoTimer
  THEN Elapse(watchdogTimer.next - now)
  ELSE Elapse(CheckIntervalMs)

WatchdogInit ==
  /\ db = "null"
  /\ initPromise = "none"
  /\ rows = << >>
  /\ call = [c \in Calls |-> IdleCall]
  /\ stmt = [c \in Calls |-> NoStmt]
  /\ now = 0
  /\ uncaught = FALSE
  /\ lastWrite = NoWrite
  /\ PureIdle
  /\ watchdogClass \in { "utils", "mqtt" }
  /\ deviceStates = [s \in WatchedSerials |-> NoDevice]
  /\ watchdogTimer = NoTimer
  /\ subscriptionManager = "null"
  /\ onAvailabilityChange = "null"
  /\ activeSerials = {}
  /\ handlerCalls = << >>
  /\ forcedOff = {}
  /\ lastCall = [s \in WatchedSerials |-> "off"]
  /\ jitter = 0
  /\ ReconcilerIdle
  /\ BridgeIdle

WatchdogNext ==
  \/ Start
  \/ Stop
  \/ SetAvailabilityChangeHandler
  \/ CheckDeviceTimeouts
  \/ ElapseMs
  \/ ElapseInterval
  \/ \E serial \in WatchedSerials : MarkSeen(serial)
  \/ \E serial \in WatchedSerials : ForceUnavailable(serial)
  \/ \E serial \in WatchedSerials : Subscribe(serial)
  \/ \E serial \in WatchedSerials : Unsubscribe(serial)

SpecWatchdog == WatchdogInit /\ [][WatchdogNext]_vars

\* ------------------------------------------------------------------------
\* Properties of the watchdog
\* ------------------------------------------------------------------------
\* A step in which the interval timer ran checkDeviceTimeouts.
SweepStep ==
  /\ watchdogTimer # NoTimer
  /\ watchdogTimer' # NoTimer
  /\ watchdogTimer'.next # watchdogTimer.next

\* C11: a serial that has been marked seen is never found unavailable by
\* getAvailability before 300000 ms have passed since it was last seen,
\* whatever number of sweeps run (forceUnavailable set aside).
C11_NoTimeoutBefore300000 ==
  \A s \in WatchedSerials :
    (Known(s) /\ ~getAvailability(s) /\ s \notin forcedOff)
      => now - deviceStates[s].lastSeen > TIMEOUT_MS

\* C12: with the timer started no later than the moment the timeout of a
\* serial elapses, the serial is unavailable once more than one check
\* interval has passed after that moment.
C12_UnavailableWithinOneInterval ==
  \A s \in WatchedSerials :
    ( /\ Known(s)
      /\ watchdogTimer # NoTimer
      /\ watchdogTimer.startedAt <= deviceStates[s].lastSeen + TimeoutMs
      /\ now > deviceStates[s].lastSeen + TimeoutMs + CheckIntervalMs )
      => ~getAvailability(s)

\* The utils watchdog has swept a serial unavailable: it was last seen more
\* than 300000 + 30000 ms ago and the timer was running all along.
C12_Witness ==
  /\ watchdogClass = "utils"
  /\ Known("B")
  /\ ~getAvailability("B")
  /\ "B" \notin forcedOff
  /\ watchdogTimer # NoTimer
  /\ watchdogTimer.startedAt <= deviceStates["B"].lastSeen
  /\ now > deviceStates["B"].lastSeen + TIMEOUT_MS + CHECK_INTERVAL_MS

\* C13: with a handler set, every step calls it exactly once with
\* (serial, false) when the serial goes from available to unavailable,
\* exactly once with (serial, true) when it becomes available, and not at
\* all when its availability stays as it was: later sweeps over a silent
\* serial and markSeen on an available serial make no call.
C13_OneCallPerChange ==
  [][ onAvailabilityChange = "set" =>
        \A s \in WatchedSerials :
          CallsAbout(handlerCalls', s) =
            IF ~getAvailability(s) /\ Known(s)' /\ deviceStates'[s].isAvailable
            THEN << << s, TRUE >> >>
            ELSE IF getAvailability(s) /\ ~deviceStates'[s].isAvailable
            THEN << << s, FALSE >> >>
            ELSE << >> ]_vars

\* A silent serial was swept unavailable, at least two further sweeps have
\* run since and the last step called no handler.
C13_Witness ==
  /\ onAvailabilityChange = "set"
  /\ Known("B")
  /\ ~getAvailability("B")
  /\ "B" \notin forcedOff
  /\ watchdogTimer # NoTimer
  /\ watchdogTimer.startedAt <= deviceStates["B"].lastSeen
  /\ watchdogTimer.next >
       deviceStates["B"].lastSeen + TimeoutMs + 3 * CheckIntervalMs
  /\ handlerCalls = << >>

\* C14: a sweep leaves every serial with an active long-poll subscription
\* available, and calls the handler with (serial, true) for one that was
\* unavailable.
C14_SubscribedStaysAvailable ==
  [][ SweepStep =>
        \A s \in activeSerials :
          /\ Known(s)'
          /\ deviceStates'[s].isAvailable
          /\ (~getAvailability(s) /\ onAvailabilityChange = "set")
               => CallsAbout(handlerCalls', s) = << << s, TRUE >> >> ]_vars

\* ------------------------------------------------------------------------
\* Services on the object store: statements, conversions, table reads
\* ------------------------------------------------------------------------
MaxRuns == 2

DeviceKey(serial) == "device." \o serial
SharedKey(serial) == "shared." \o serial
UserKey(userId) == "user." \o userId

\* userId.replace(/^user_/, "")
StripUserPrefix(userId) == IF userId = "user_U" THEN "U" ELSE userId

\* The statement upsertState(serial, objectKey, revision, timestamp, value)
\* hands to db.run when it reads the given table.
upsertStatement(table, serial, objectKey, revision, timestamp, value, by) ==
  LET currentState == getState(table, serial, objectKey) IN
  [status |-> "pending",
   kind |-> IF currentState # NoState THEN "UPDATE" ELSE "INSERT",
   object_revision |-> revision,
   object_timestamp |-> timestamp,
   value |-> IF currentState # NoState
             THEN UpdateText(currentState.value, value)
             ELSE InsertText(value),
   updatedAt |-> now,
   serial |-> serial, object_key |-> objectKey,
   incoming |-> value, by |-> by]

\* The pending statements once the driver has taken the j-th.
Without(statements, j) ==
  [i \in 1 .. Len(statements) - 1 |->
     IF i < j THEN statements[i] ELSE statements[i + 1]]

NaN == [k |-> "nan"]

\* Boolean(v)
ToBoolean(v) ==
  CASE v.k \in { "undefined", "null", "nan" } -> FALSE
    [] v.k = "bool" -> v.v
    [] v.k = "num" -> v.v # 0
    [] v.k = "str" -> v.v # ""
    [] OTHER -> TRUE

\* Number(v), on the values device objects hold here
ToNumber(v) ==
  CASE v.k = "num" -> v
    [] v.k = "bool" -> Num(IF v.v THEN 1 ELSE 0)
    [] v.k = "null" -> Num(0)
    [] v.k = "str" -> IF v.v = "" THEN Num(0) ELSE NaN
    [] OTHER -> NaN

\* n || 0 on a number
OrZero(n) == IF n.k = "nan" THEN 0 ELSE n.v

Digits == << "0", "1", "2", "3", "4", "5", "6", "7", "8", "9" >>

RECURSIVE DecimalText(_)
DecimalText(n) ==
  IF n < 10 THEN Digits[n + 1]
  ELSE DecimalText(n \div 10) \o Digits[(n % 10) + 1]

\* String(v)
ToStringValue(v) ==
  CASE v.k = "str" -> v.v
    [] v.k = "num" -> IF v.v < 0 THEN "-" \o DecimalText(-v.v)
                      ELSE DecimalText(v.v)
    [] v.k = "bool" -> IF v.v THEN "true" ELSE "false"
    [] v.k = "undefined" -> "undefined"
    [] v.k = "null" -> "null"
    [] v.k = "nan" -> "NaN"
    [] OTHER -> "[object Object]"

MaxOf(S) == CHOOSE x \in S : \A y \in S : y <= x

\* SQLite3Service.getAllStateForDevice: the rows of (serial, object_key)
\* gathered as { serial: { object_key: object } }; a later row of the same
\* key replaces an earlier one.
getAllStateForDevice(table, serial, objectKey) ==
  IF Matching(table, serial, objectKey) = {} THEN EmptyObj
  ELSE LET row == table[MaxOf(Matching(table, serial, objectKey))]
           object ==
             Obj([object_key |-> Str(row.object_key),
                  object_revision |-> Num(row.object_revision),
                  object_timestamp |-> Num(row.object_timestamp),
                  value |-> JSONparse(row.value),
                  updatedAt |-> Num(row.updatedAt)])
       IN Obj(row.serial :> Obj(row.object_key :> object))

\* SQLite3Service.getOwnerDevices: the serials of the user's rows
getOwnerDevices(userId) ==
  LET mine == SelectSeq(deviceOwners, LAMBDA r : r.userId = userId)
  IN [i \in 1 .. Len(mine) |-> mine[i].serial]

\* ------------------------------------------------------------------------
\* SQLite3Service.updateUserAwayStatus
\* ------------------------------------------------------------------------
UserIds == { "U", "user_U" }
ReconSerials == { "A", "B" }

restOfRecon ==
  << db, initPromise, call, stmt, uncaught, pureVars, watchdogVars,
     bridgeVars >>

\* The snapshot kept once a reconciliation is done, its statements are
\* executed and no device has written since it began.
Settle(table, statements, activation, changed) ==
  IF /\ settled = NoSnapshot
     /\ activation.pc = "idle" /\ activation.runs >= 1
     /\ statements = << >>
     /\ ~changed
  THEN [k |-> "table", rows |-> table]
  ELSE settled

\* Variant that stamps the user object with the time of the run.
updatedValueStamped(currentValue, acc) ==
  Spread(currentValue,
         Obj([away |-> Bool(acc.userAway),
              vacation_mode |-> Bool(acc.hasVacationMode),
              away_timestamp |-> Num(now)]))

\* { ...currentValue, away, vacation_mode } and the three optional fields
updatedValue(currentValue, acc) ==
  LET base ==
        Spread(currentValue,
               Obj([away |-> Bool(acc.userAway),
                    vacation_mode |-> Bool(acc.hasVacationMode)]))
      withAway ==
        IF acc.mostRecentAwayTimestamp > 0
        THEN SetProp(base, "away_timestamp", Num(acc.mostRecentAwayTimestamp))
        ELSE base
      withSetter ==
        IF acc.mostRecentAwaySetter # Null
        THEN SetProp(withAway, "away_setter", acc.mostRecentAwaySetter)
        ELSE withAway
  IN IF acc.mostRecentManualAwayTimestamp > 0
     THEN SetProp(withSetter, "manual_away_timestamp",
                  Num(acc.mostRecentManualAwayTimestamp))
     ELSE withSetter

\* updateUserAwayStatus(userId) begins: nowMs, the owned devices, and the
\* early return of a user without devices. A run begins when the statements
\* of the run before it have been executed.
UpdateUserAwayStatus(userId) ==
  /\ recon.pc = "idle"
  /\ recon.runs < MaxRuns
  /\ db = "open"
  /\ pending = << >>
  /\ LET id == StripUserPrefix(userId)
         ownedDevices == getOwnerDevices(id)
     IN recon' =
          IF Len(ownedDevices) = 0
          THEN [pc |-> "idle", runs |-> recon.runs + 1]
          ELSE [pc |-> "scan", runs |-> recon.runs, userId |-> id,
                nowMs |-> now, ownedDevices |-> ownedDevices, i |-> 1,
                allAway |-> TRUE, anyDeviceReported |-> FALSE,
                mostRecentAwayTimestamp |-> 0,
                mostRecentAwaySetter |-> Null,
                hasVacationMode |-> FALSE,
                mostRecentManualAwayTimestamp |-> 0,
                userAway |-> FALSE]
  /\ deviceChanged' = FALSE
  /\ settled' = Settle(rows, pending, recon', FALSE)
  /\ UNCHANGED << rows, now, lastWrite, deviceOwners, deviceShares, weatherCache, pending >>
  /\ UNCHANGED restOfRecon

\* The accumulators after the first loop has looked at one device.
Scanned(acc, deviceState) ==
  LET value == GetProp(deviceState, "value")
      awayTimestamp == OrZero(ToNumber(GetProp(value, "away_timestamp")))
      manualAwayTimestamp ==
        OrZero(ToNumber(GetProp(value, "manual_away_timestamp")))
  IN IF ~(ToBoolean(deviceState) /\ ToBoolean(value)) THEN acc
     ELSE [acc EXCEPT
             !.anyDeviceReported = TRUE,
             !.hasVacationMode =
               @ \/ ToBoolean(GetProp(value, "vacation_mode")),
             !.mostRecentAwayTimestamp =
               IF awayTimestamp > @ THEN awayTimestamp ELSE @,
             !.mostRecentManualAwayTimestamp =
               IF manualAwayTimestamp > @ THEN manualAwayTimestamp ELSE @,
             !.mostRecentAwaySetter =
               IF manualAwayTimestamp > acc.mostRecentManualAwayTimestamp
               THEN Str(ToStringValue(GetProp(value, "away_setter")))
               ELSE @,
             !.allAway = @ /\ ToBoolean(GetProp(value, "away"))]

\* if (!away) { allAway = false; break; }
Breaks(deviceState) ==
  LET value == GetProp(deviceState, "value") IN
  /\ ToBoolean(deviceState) /\ ToBoolean(value)
  /\ ~ToBoolean(GetProp(value, "away"))

\* One turn of the first loop: await getAllStateForDevice(serial, deviceKey)
ScanDevice ==
  /\ recon.pc = "scan"
  /\ LET serial == recon.ownedDevices[recon.i]
         deviceState == getAllStateForDevice(rows, serial, DeviceKey(serial))
         acc == Scanned(recon, deviceState)
         last == Breaks(deviceState) \/ recon.i = Len(recon.ownedDevices)
     IN recon' =
          IF last
          THEN [acc EXCEPT !.pc = "read", !.i = 1,
                           !.userAway =
                             IF acc.anyDeviceReported THEN acc.allAway
                             ELSE FALSE]
          ELSE [acc EXCEPT !.i = @ + 1]
  /\ UNCHANGED << rows, now, lastWrite, deviceOwners, deviceShares, weatherCache, pending,
                  deviceChanged,
                  settled >>
  /\ UNCHANGED restOfRecon

\* One turn of the second loop, up to the call of upsertState:
\* await getAllStateForDevice(serial, userStateKey), then the new value and
\* the revision (Number(existingUserState.object_revision) || 0) + 1.
ReadUserState ==
  /\ recon.pc = "read"
  /\ LET serial == recon.ownedDevices[recon.i]
         existingUserState ==
           getAllStateForDevice(rows, serial, UserKey(recon.userId))
         stored == GetProp(existingUserState, "value")
         currentValue == IF ToBoolean(stored) THEN stored ELSE EmptyObj
     IN recon' =
          IF ToBoolean(existingUserState)
          THEN [pc |-> "upsert"] @@
               [value |-> updatedValue(currentValue, recon),
                revision |->
                  OrZero(ToNumber(GetProp(existingUserState,
                                          "object_revision"))) + 1] @@
               recon
          ELSE IF recon.i = Len(recon.ownedDevices)
          THEN [pc |-> "idle", runs |-> recon.runs + 1]
          ELSE [recon EXCEPT !.i = @ + 1]
  /\ settled' = Settle(rows, pending, recon', deviceChanged)
  /\ UNCHANGED << rows, now, lastWrite, deviceOwners, deviceShares, weatherCache, pending,
                  deviceChanged >>
  /\ UNCHANGED restOfRecon

\* await this.upsertState(serial, userStateKey, revision, nowMs, value):
\* the statement is handed to the driver and the loop goes on.
UpsertUserState ==
  /\ recon.pc = "upsert"
  /\ LET serial == recon.ownedDevices[recon.i] IN
     pending' =
       Append(pending,
              upsertStatement(rows, serial, UserKey(recon.userId),
                              recon.revision, recon.nowMs, recon.value,
                              "updateUserAwayStatus"))
  /\ recon' =
       IF recon.i = Len(recon.ownedDevices)
       THEN [pc |-> "idle", runs |-> recon.runs + 1]
       ELSE [recon EXCEPT !.pc = "read", !.i = @ + 1]
  /\ UNCHANGED << rows, now, lastWrite, deviceOwners, deviceShares, weatherCache,
                  deviceChanged,
                  settled >>
  /\ UNCHANGED restOfRecon

\* The driver executes one of the pending statements.
DriverRun(j) ==
  /\ j \in DOMAIN pending
  /\ rows' = Execute(rows, pending[j])
  /\ pending' = Without(pending, j)
  /\ settled' = Settle(rows', pending', recon, deviceChanged)
  /\ UNCHANGED << now, lastWrite, deviceOwners, deviceShares, weatherCache, recon,
                  deviceChanged >>
  /\ UNCHANGED restOfRecon

\* What devices report about being away.
AwayReports ==
  { Obj([away |-> Bool(TRUE)]), Obj([away |-> Bool(FALSE)]) }

\* Between two runs a device writes its device object (PUT /transport/put),
\* stored at once.
DevicePut(serial, value) ==
  /\ LET s == upsertStatement(rows, serial, DeviceKey(serial), 1, now, value,
                              "device")
     IN rows' = Execute(rows, s)
  /\ recon.pc = "idle"
  /\ pending = << >>
  /\ rows' # rows
  /\ deviceChanged' = TRUE
  /\ settled' = NoSnapshot
  /\ UNCHANGED << now, lastWrite, deviceOwners, deviceShares, weatherCache, pending, recon >>
  /\ UNCHANGED restOfRecon

\* Scenario S6 and its neighbours: what the devices and the user objects
\* hold when the reconciler is first run.
DeviceARows ==
  { << >>,
    << Row("A", "device.A", 1, 0,
           JSONstringify(Obj([away |-> Bool(TRUE),
                              away_timestamp |-> Num(100)])), 0) >>,
    << Row("A", "device.A", 1, 0,
           JSONstringify(Obj([away |-> Bool(FALSE)])), 0) >> }
DeviceBRows ==
  { << >>,
    << Row("B", "device.B", 1, 0,
           JSONstringify(Obj([away |-> Bool(TRUE),
                              away_timestamp |-> Num(200),
                              vacation_mode |-> Bool(TRUE)])), 0) >> }
UserARows ==
  { << >>,
    << Row("A", "user.U", 3, 0,
           JSONstringify(Obj([name |-> Str("home"),
                              away |-> Bool(TRUE)])), 0) >> }
UserBRows == { << >> }

ReconcilerTables ==
  { a \o b \o ua \o ub :
      a \in DeviceARows, b \in DeviceBRows, ua \in UserARows,
      ub \in UserBRows }

OwnerTables ==
  { << >>,
    << [userId |-> "U", serial |-> "A"] >>,
    << [userId |-> "U", serial |-> "A"], [userId |-> "U", serial |-> "B"] >> }

ReconcilerInit ==
  /\ db = "open"
  /\ initPromise = "db"
  /\ rows \in ReconcilerTables
  /\ call = [c \in Calls |-> IdleCall]
  /\ stmt = [c \in Calls |-> NoStmt]
  /\ now = 0
  /\ uncaught = FALSE
  /\ lastWrite = NoWrite
  /\ PureIdle
  /\ WatchdogIdle
  /\ BridgeIdle
  /\ deviceOwners \in OwnerTables
  /\ deviceShares = << >>
  /\ weatherCache = << >>
  /\ pending = << >>
  /\ recon = IdleRecon
  /\ deviceChanged = FALSE
  /\ settled = NoSnapshot

\* Time passes between two runs.
Pause ==
  /\ recon.pc = "idle"
  /\ pending = << >>
  /\ Tick

ReconcilerNext ==
  \/ Pause
  \/ ScanDevice
  \/ ReadUserState
  \/ UpsertUserState
  \/ \E userId \in UserIds : UpdateUserAwayStatus(userId)
  \/ \E j \in 1 .. MaxRuns * 2 : DriverRun(j)
  \/ \E serial \in ReconSerials, value \in AwayReports :
       DevicePut(serial, value)

SpecReconciler == ReconcilerInit /\ [][ReconcilerNext]_vars

\* ------------------------------------------------------------------------
\* Properties of the reconciler
\* ------------------------------------------------------------------------
Owned == { r.serial : r \in { deviceOwners[i] : i \in DOMAIN deviceOwners } }

\* A reconciliation is done, its statements are executed and no device has
\* written since it began.
Reconciled ==
  /\ recon.pc = "idle"
  /\ recon.runs >= 1
  /\ pending = << >>
  /\ ~deviceChanged

Reports(table, serial) == getState(table, serial, DeviceKey(serial)) # NoState

\* At least one owned device has a device object and every such device
\* has away == true.
AllAway(table) ==
  /\ \E d \in Owned : Reports(table, d)
  /\ \A d \in Owned :
       Reports(table, d) =>
         GetProp(getState(table, d, DeviceKey(d)).value, "away") = Bool(TRUE)

\* C17: after updateUserAwayStatus(U) the user.U object of every owned
\* device has away = true exactly when at least one owned device reports
\* and every reporting owned device is away, and away = false otherwise.
C17_UserAwayFollowsDevices ==
  Reconciled =>
    \A d \in Owned :
      /\ getState(rows, d, "user.U") # NoState
      /\ GetProp(getState(rows, d, "user.U").value, "away")
           = Bool(AllAway(rows))

MaxCommands == 1

\* The configuration: the defaults of the constructor, with Home Assistant
\* discovery enabled (derived commands are subscribed only then).
topicPrefix == "nest"
publishRaw == config.publishRaw
homeAssistantDiscovery == config.homeAssistantDiscovery
discoveryPrefix == "homeassistant"
BridgeUser == "U"

\* What the bridge never touches.
restOfBridge ==
  << db, initPromise, call, stmt, now, uncaught, lastWrite, pureVars,
     watchdogClass, watchdogTimer, subscriptionManager, onAvailabilityChange,
     activeSerials, jitter, deviceOwners, deviceShares, weatherCache, recon, deviceChanged,
     settled >>

\* What a step that calls no service leaves alone.
serviceState ==
  << rows, pending, deviceStates, handlerCalls, forcedOff, lastCall >>

Message(topic, payload, retain, qos) ==
  [topic |-> topic, payload |-> payload, retain |-> retain, qos |-> qos]

\* buildStateTopic(prefix, serial, objectType[, field])
StateTopic(serial, objectType) ==
  topicPrefix \o "/" \o serial \o "/" \o objectType
FieldTopic(serial, objectType, field) ==
  StateTopic(serial, objectType) \o "/" \o field
\* `${prefix}/${serial}/ha/...`
HaTopic(serial, name) == topicPrefix \o "/" \o serial \o "/ha/" \o name
\* buildAvailabilityTopic(prefix, serial)
AvailabilityTopic(serial) == topicPrefix \o "/" \o serial \o "/availability"

\* helpers.haModeToNest and helpers.nestModeToHA: the mapping table
\* off <-> off, heat <-> heat, cool <-> cool, heat_cool <-> range
haModeToNest(haMode) ==
  CASE haMode = "heat" -> "heat"
    [] haMode = "cool" -> "cool"
    [] haMode = "heat_cool" -> "range"
    [] OTHER -> "off"

nestModeToHA(nestMode) ==
  CASE nestMode = Str("heat") -> "heat"
    [] nestMode = Str("cool") -> "cool"
    [] nestMode = Str("range") -> "heat_cool"
    [] OTHER -> "off"

\* helpers.nestPresetToHA on a device whose eco is not active:
\* away if away = true or auto_away >= 1, else home
nestPresetToHA(device) ==
  IF \/ GetProp(device, "away") = Bool(TRUE)
     \/ /\ GetProp(device, "auto_away").k = "num"
        /\ GetProp(device, "auto_away").v >= 1
  THEN "away"
  ELSE "home"

\* Variant of userDeviceSerials.has that lets every serial through.
hasAny(serials, serial) == TRUE

\* this.userDeviceSerials.has(serial)
has(serials, serial) == serial \in serials

\* JSON.parse(valueStr), else parseFloat(valueStr), else the string
parseMessage(valueStr) ==
  CASE valueStr = "true" -> Bool(TRUE)
    [] valueStr = "false" -> Bool(FALSE)
    [] valueStr = "21" -> Num(21)
    [] OTHER -> Str(valueStr)

\* typeof fieldValue === 'object' ? JSON.stringify(fieldValue)
\*                                 : String(fieldValue)
fieldPayload(fieldValue) ==
  IF fieldValue.k \in { "obj", "null" } THEN JSONstringify(fieldValue)
  ELSE ToStringValue(fieldValue)

\* `${discoveryPrefix}/.../${serial}/...`: the discovery topic of a serial.
DiscoveryTopic(serial) ==
  discoveryPrefix \o "/climate/" \o serial \o "/config"

\* publishThermostatDiscovery(client, serial, ...): the retained discovery
\* payload, and removeDeviceDiscovery: the retained empty payload.
publishThermostatDiscovery(serial) ==
  << Message(DiscoveryTopic(serial), "config", TRUE, 1) >>
removeDeviceDiscovery(serial) ==
  << Message(DiscoveryTopic(serial), "", TRUE, 1) >>

\* publishAvailability(serial, status)
publishAvailability(serial, status) ==
  IF client = "null" THEN << >>
  ELSE << Message(AvailabilityTopic(serial), status, TRUE, 1) >>

\* publishHomeAssistantState(serial), reading the given table: discovery
\* again, then the mode and preset topics (the other derived topics follow
\* fields that no command here writes).
publishHomeAssistantState(serial, table) ==
  IF client = "null" \/ ~isReady THEN << >>
  ELSE LET deviceObj == getState(table, serial, DeviceKey(serial))
           sharedObj == getState(table, serial, SharedKey(serial))
       IN publishThermostatDiscovery(serial) \o
          IF deviceObj = NoState \/ sharedObj = NoState THEN << >>
          ELSE << Message(HaTopic(serial, "mode"),
                          nestModeToHA(GetProp(sharedObj.value,
                                               "target_temperature_type")),
                          TRUE, 0),
                  Message(HaTopic(serial, "preset"),
                          nestPresetToHA(deviceObj.value), TRUE, 0) >>

\* publishObjectState(serial, objectKey, value, skipHA)
publishObjectStateSkip(serial, objectType, value, table, skipHA) ==
  IF client = "null" \/ ~isReady THEN << >>
  ELSE LET keys == ObjectKeys(value)
           raw ==
             IF publishRaw
             THEN << Message(StateTopic(serial, objectType),
                             JSONstringify(value), TRUE, 0) >>
                  \o [i \in 1 .. Len(keys) |->
                        Message(FieldTopic(serial, objectType, keys[i]),
                                fieldPayload(GetProp(value, keys[i])),
                                TRUE, 0)]
             ELSE << >>
       IN IF homeAssistantDiscovery /\ ~skipHA
          THEN raw \o publishHomeAssistantState(serial, table)
          ELSE raw

\* publishObjectState(serial, objectKey, value): skipHA defaults to false
publishObjectState(serial, objectType, value, table) ==
  publishObjectStateSkip(serial, objectType, value, table, FALSE)

\* onDeviceStateChange(change)
onDeviceStateChange(serial, objectType, value, table) ==
  IF ~has(userDeviceSerials, serial) THEN << >>
  ELSE publishObjectState(serial, objectType, value, table)

\* AbstractDeviceStateManager.listUserDevices: the user's rows of
\* deviceOwners; getSharedWithMe: the user's rows of deviceShares, a table
\* that stays empty here.
listUserDevices(userId) ==
  SelectSeq(deviceOwners, LAMBDA r : r.userId = userId)
getSharedWithMe(userId) == << >>

\* const currentSerials = new Set<string>() and the two loops that fill it
currentSerialsRead ==
  LET ownedDevices == listUserDevices(BridgeUser)
      sharedDevices == getSharedWithMe(BridgeUser)
  IN { ownedDevices[i].serial : i \in DOMAIN ownedDevices }
     \cup { sharedDevices[i].serial : i \in DOMAIN sharedDevices }

\* The integration bus hands a mutation to the integrations of the users
\* that own or are shared the serial.
dispatchStateChange(serial, objectType, value, table) ==
  IF serial \in currentSerialsRead
  THEN onDeviceStateChange(serial, objectType, value, table)
  ELSE << >>

\* The watchdog after DeviceStateService.upsert has marked the serial seen.
Seen(serial) ==
  /\ deviceStates' =
       [s \in DOMAIN deviceStates |->
          IF s = serial THEN markSeenState(deviceStates[s], s)
          ELSE deviceStates[s]]
  /\ handlerCalls' =
       IF serial \in DOMAIN deviceStates
       THEN notifyAvailabilityChange(markSeenCalls(deviceStates[serial],
                                                   serial)).made
       ELSE << >>
  /\ lastCall' = recordCalls(handlerCalls')
  /\ forcedOff' = forcedOff \ { serial }

\* DeviceStateService.upsert: the store's upsertState, which returns once
\* the statement is handed to db.run; then markSeen, the notify of the
\* subscription manager and the dispatch to the integration.
ServiceUpsert(serial, objectType, revision, timestamp, value, by, notifies) ==
  /\ pending' =
       Append(pending,
              upsertStatement(rows, serial, objectType \o "." \o serial,
                              revision, timestamp, value, by))
  /\ Seen(serial)
  /\ notified' =
       [i \in 1 .. notifies |->
          [serial |-> serial, objectKey |-> objectType \o "." \o serial]]
  /\ published' = dispatchStateChange(serial, objectType, value, rows)
  /\ UNCHANGED rows

\* initialize() up to subscribeToCommands: the device set is loaded, the
\* client is connected and the message handler is attached.
Connect ==
  /\ client = "null"
  /\ client' = "connected"
  /\ userDeviceSerials' = currentSerialsRead
  /\ published' = << >>
  /\ notified' = << >>
  /\ UNCHANGED << isReady, cmd, watchVars >>
  /\ UNCHANGED serviceState
  /\ UNCHANGED restOfBridge

\* The serials of a set in the order the loops visit them.
InOrder(serials) ==
  IF serials = {} THEN << >>
  ELSE IF serials = { "A" } THEN << "A" >>
  ELSE IF serials = { "B" } THEN << "B" >>
  ELSE << "A", "B" >>

\* The object types a serial can have rows of, and those it has.
ObjectTypes == << "device", "shared" >>
StoredTypes(table, serial) ==
  SelectSeq(ObjectTypes,
            LAMBDA t : getState(table, serial, t \o "." \o serial) # NoState)

RECURSIVE PerSerial(_, _, _)
PerSerial(Op(_, _), serials, table) ==
  IF serials = << >> THEN << >>
  ELSE Op(Head(serials), table) \o PerSerial(Op, Tail(serials), table)

\* publishDiscoveryMessages(), one turn of its loop
DiscoveryOf(serial, table) ==
  IF client = "null" \/ ~homeAssistantDiscovery THEN << >>
  ELSE publishThermostatDiscovery(serial)

\* publishInitialState(), one turn of its loop
InitialStateOf(serial, table) ==
  LET types == StoredTypes(table, serial)
      Raw(t) ==
        publishObjectStateSkip(
          serial, t, getState(table, serial, t \o "." \o serial).value,
          table, TRUE)
  IN IF client = "null" \/ types = << >> THEN << >>
     ELSE (IF Len(types) = 2 THEN Raw(types[1]) \o Raw(types[2])
           ELSE Raw(types[1]))
          \o (IF homeAssistantDiscovery
              THEN publishHomeAssistantState(serial, table) ELSE << >>)
          \o publishAvailability(serial, "online")

\* The rest of initialize(): publishDiscoveryMessages, publishInitialState
\* (both before the integration is ready), then isReady = true.
Initialized ==
  /\ client = "connected"
  /\ ~isReady
  /\ isReady' = TRUE
  /\ published' =
       PerSerial(DiscoveryOf, InOrder(userDeviceSerials), rows)
       \o PerSerial(InitialStateOf, InOrder(userDeviceSerials), rows)
  /\ notified' = << >>
  /\ UNCHANGED << client, userDeviceSerials, cmd, watchVars >>
  /\ UNCHANGED serviceState
  /\ UNCHANGED restOfBridge

\* Command topics matched by the subscriptions, as parseCommandTopic and
\* the Home Assistant pattern take them apart.
RawTopics ==
  { [serial |-> s, objectType |-> "device", field |-> f] :
      s \in ReconSerials, f \in { "name" } }
HaTopics ==
  { [serial |-> s, objectType |-> "ha", field |-> c] :
      s \in ReconSerials, c \in { "mode", "preset" } }
Messages(topic) ==
  IF topic.objectType # "ha" THEN { "hello" }
  ELSE IF topic.field = "mode" THEN { "heat" }
  ELSE IF topic.field = "fan_mode" THEN { "on", "off" }
  ELSE { "away", "home" }

\* handleCommand(topic, message) up to the authorization test, for raw and
\* Home Assistant topics alike. A command is taken up when the statements
\* of the one before it are executed.
HandleCommand(topic, message) ==
  /\ client = "connected"
  /\ cmd.pc \in { "idle", "done" }
  /\ cmd.n < MaxCommands
  /\ pending = << >>
  /\ cmd' =
       [pc |-> IF ~has(userDeviceSerials, topic.serial) THEN "done"
               ELSE IF topic.objectType = "ha" THEN "ha_get"
               ELSE "get",
        n |-> cmd.n + 1,
        topic |-> topic,
        message |-> message,
        outcome |-> IF ~has(userDeviceSerials, topic.serial)
                    THEN "unauthorized" ELSE "running",
        currentObj |-> NoState,
        deviceObj |-> NoState,
        sharedObj |-> NoState,
        step |-> 1,
        republished |-> << >>]
  /\ published' = << >>
  /\ notified' = << >>
  /\ UNCHANGED << client, isReady, userDeviceSerials, watchVars >>
  /\ UNCHANGED serviceState
  /\ UNCHANGED restOfBridge

\* handleCommand: const currentObj = await this.deviceState.get(...)
GetCurrentObj ==
  /\ cmd.pc = "get"
  /\ LET currentObj ==
           getState(rows, cmd.topic.serial,
                    cmd.topic.objectType \o "." \o cmd.topic.serial)
     IN cmd' =
          IF currentObj = NoState
          THEN [cmd EXCEPT !.pc = "done", !.outcome = "not found"]
          ELSE [cmd EXCEPT !.pc = "upsert", !.currentObj = currentObj]
  /\ published' = << >>
  /\ notified' = << >>
  /\ UNCHANGED << client, isReady, userDeviceSerials, watchVars >>
  /\ UNCHANGED serviceState
  /\ UNCHANGED restOfBridge

\* handleCommand: newValue, newRevision, newTimestamp and the upsert
UpsertCommand ==
  /\ cmd.pc = "upsert"
  /\ ServiceUpsert(cmd.topic.serial, cmd.topic.objectType,
                   cmd.currentObj.object_revision + 1, now,
                   SetProp(cmd.currentObj.value, cmd.topic.field,
                           parseMessage(cmd.message)),
                   "handleCommand", 1)
  /\ cmd' = [cmd EXCEPT !.pc = "done", !.outcome = "executed"]
  /\ UNCHANGED << client, isReady, userDeviceSerials, watchVars >>
  /\ UNCHANGED restOfBridge

\* handleHomeAssistantCommand: deviceObj, sharedObj and the test for a
\* device that is not fully initialized
GetDeviceAndShared ==
  /\ cmd.pc = "ha_get"
  /\ LET deviceObj ==
           getState(rows, cmd.topic.serial, DeviceKey(cmd.topic.serial))
         sharedObj ==
           getState(rows, cmd.topic.serial, SharedKey(cmd.topic.serial))
     IN cmd' =
          IF deviceObj = NoState \/ sharedObj = NoState
          THEN [cmd EXCEPT !.pc = "done", !.outcome = "not initialized"]
          ELSE [cmd EXCEPT !.pc = "ha_update", !.deviceObj = deviceObj,
                           !.sharedObj = sharedObj]
  /\ published' = << >>
  /\ notified' = << >>
  /\ UNCHANGED << client, isReady, userDeviceSerials, watchVars >>
  /\ UNCHANGED serviceState
  /\ UNCHANGED restOfBridge

\* The minutes a fan_mode = on lasts, in seconds.
FanOnSeconds == 3600

\* case 'fan_mode': the fields handed to updateDeviceFields
fanModeFields(valueStr) ==
  IF valueStr = "on"
  THEN Obj([fan_control_state |-> Bool(TRUE),
            fan_timer_active |-> Bool(TRUE),
            fan_timer_timeout |-> Num((now \div 1000) + FanOnSeconds)])
  ELSE Obj([fan_control_state |-> Bool(FALSE),
            fan_timer_active |-> Bool(FALSE),
            fan_timer_timeout |-> Num(0)])

\* Variant that hands over the first of the fields only.
updateDeviceFieldsFirst(currentObj, fields) ==
  SetProp(currentObj.value, "fan_control_state",
          GetProp(fields, "fan_control_state"))

\* updateDeviceFields(serial, currentObj, fields): newValue
updateDeviceFields(currentObj, fields) == Spread(currentObj.value, fields)

\* The call the switch makes at the given step: updateSharedValue for mode,
\* updateDeviceFields for fan_mode, updateDeviceValue twice for preset away
\* and preset home.
haUpdate(command, valueStr, step) ==
  CASE command = "mode" ->
         [objectType |-> "shared", field |-> "target_temperature_type",
          value |-> Str(haModeToNest(valueStr)), last |-> TRUE]
    [] command = "preset" /\ valueStr = "away" /\ step = 1 ->
         [objectType |-> "device", field |-> "auto_away", value |-> Num(2),
          last |-> FALSE]
    [] command = "preset" /\ valueStr = "away" /\ step = 2 ->
         [objectType |-> "device", field |-> "away", value |-> Bool(TRUE),
          last |-> TRUE]
    [] command = "preset" /\ valueStr = "home" /\ step = 1 ->
         [objectType |-> "device", field |-> "auto_away", value |-> Num(0),
          last |-> FALSE]
    [] command = "preset" /\ valueStr = "home" /\ step = 2 ->
         [objectType |-> "device", field |-> "away", value |-> Bool(FALSE),
          last |-> TRUE]
    [] command = "fan_mode" ->
         [objectType |-> "device", fields |-> fanModeFields(valueStr),
          last |-> TRUE]

\* updateSharedValue / updateDeviceValue(serial, currentObj, field, value)
\* and updateDeviceFields(serial, currentObj, fields): the upsert and the
\* notify that follows it
\* The commands the switch of handleHomeAssistantCommand has a case for;
\* any other falls to default, which only warns.
SwitchCases ==
  { "mode", "target_temperature", "target_temperature_low",
    "target_temperature_high", "fan_mode", "preset" }

UpdateValue ==
  /\ cmd.pc = "ha_update"
  /\ IF cmd.topic.field \notin SwitchCases
     THEN /\ cmd' = [cmd EXCEPT !.pc = "ha_publish"]
          /\ published' = << >>
          /\ notified' = << >>
          /\ UNCHANGED serviceState
     ELSE LET update == haUpdate(cmd.topic.field, cmd.message, cmd.step)
              currentObj ==
                IF update.objectType = "shared" THEN cmd.sharedObj
                ELSE cmd.deviceObj
              newValue ==
                IF "fields" \in DOMAIN update
                THEN updateDeviceFields(currentObj, update.fields)
                ELSE SetProp(currentObj.value, update.field, update.value)
          IN /\ ServiceUpsert(cmd.topic.serial, update.objectType,
                              currentObj.object_revision + 1, now, newValue,
                              IF update.objectType = "shared"
                              THEN "updateSharedValue"
                              ELSE IF "fields" \in DOMAIN update
                                   THEN "updateDeviceFields"
                                   ELSE "updateDeviceValue",
                              2)
             /\ cmd' = [cmd EXCEPT
                          !.pc = IF update.last THEN "ha_publish" ELSE "ha_update",
                          !.step = @ + 1]
  /\ UNCHANGED << client, isReady, userDeviceSerials, watchVars >>
  /\ UNCHANGED restOfBridge

\* handleHomeAssistantCommand: await this.publishHomeAssistantState(serial)
RepublishState ==
  /\ cmd.pc = "ha_publish"
  /\ published' = publishHomeAssistantState(cmd.topic.serial, rows)
  /\ notified' = << >>
  /\ cmd' = [cmd EXCEPT !.pc = "done", !.outcome = "executed",
                        !.republished = published']
  /\ UNCHANGED << client, isReady, userDeviceSerials, watchVars >>
  /\ UNCHANGED serviceState
  /\ UNCHANGED restOfBridge

\* The driver executes one of the pending statements.
BridgeDriverRun(j) ==
  /\ j \in DOMAIN pending
  /\ rows' = Execute(rows, pending[j])
  /\ pending' = Without(pending, j)
  /\ UNCHANGED << deviceStates, handlerCalls, forcedOff, lastCall >>
  /\ UNCHANGED bridgeVars
  /\ UNCHANGED restOfBridge

\* A device writes its device object (PUT /transport/put) through
\* DeviceStateService.upsert; the statement is executed at once.
TransportPut(serial, value) ==
  /\ pending = << >>
  /\ rows' =
       Execute(rows,
               upsertStatement(rows, serial, DeviceKey(serial), 1, now,
                               value, "device"))
  /\ rows' # rows
  /\ Seen(serial)
  /\ notified' = << [serial |-> serial, objectKey |-> DeviceKey(serial)] >>
  /\ published' = dispatchStateChange(serial, "device", value, rows')
  /\ UNCHANGED << client, isReady, userDeviceSerials, cmd, pending, watchVars >>
  /\ UNCHANGED restOfBridge

\* What the devices hold when the integration is started.
BridgeDeviceRows(serial) ==
  { << >>,
    << Row(serial, DeviceKey(serial), 1, 0,
           JSONstringify(Obj([auto_away |-> Num(0),
                              away |-> Bool(FALSE)])), 0) >>,
    << Row(serial, DeviceKey(serial), 1, 0,
           JSONstringify(Obj([auto_away |-> Num(2),
                              away |-> Bool(TRUE)])), 0) >> }
BridgeSharedRows(serial) ==
  { << >>,
    << Row(serial, SharedKey(serial), 4, 0,
           JSONstringify(Obj([target_temperature_type |-> Str("cool")])),
           0) >> }
BridgeTables ==
  { a \o sa \o b \o sb :
      a \in BridgeDeviceRows("A"), sa \in BridgeSharedRows("A"),
      b \in { x \in BridgeDeviceRows("B") : Len(x) = 1 /\ x[1].value
                = JSONstringify(Obj([auto_away |-> Num(0),
                                     away |-> Bool(FALSE)])) },
      sb \in { x \in BridgeSharedRows("B") : x # << >> } }

BridgeInit ==
  /\ db = "open"
  /\ initPromise = "db"
  /\ rows \in BridgeTables
  /\ call = [c \in Calls |-> IdleCall]
  /\ stmt = [c \in Calls |-> NoStmt]
  /\ now = 0
  /\ uncaught = FALSE
  /\ lastWrite = NoWrite
  /\ PureIdle
  /\ WatchdogIdle
  /\ BridgeConstructed
  /\ config = [publishRaw |-> TRUE, homeAssistantDiscovery |-> TRUE]
  /\ deviceOwners \in OwnerTables
  /\ deviceShares = << >>
  /\ weatherCache = << >>
  /\ pending = << >>
  /\ recon = IdleRecon
  /\ deviceChanged = FALSE
  /\ settled = NoSnapshot

BridgeNext ==
  \/ Connect
  \/ Initialized
  \/ \E topic \in RawTopics \cup HaTopics :
       \E message \in Messages(topic) : HandleCommand(topic, message)
  \/ GetCurrentObj
  \/ UpsertCommand
  \/ GetDeviceAndShared
  \/ UpdateValue
  \/ RepublishState
  \/ \E j \in 1 .. 2 : BridgeDriverRun(j)
  \/ \E serial \in ReconSerials, value \in AwayReports :
       TransportPut(serial, value)

SpecBridge == BridgeInit /\ [][BridgeNext]_vars

\* ------------------------------------------------------------------------
\* Properties of the MQTT integration
\* ------------------------------------------------------------------------
\* The step belongs to a command whose serial is not in the device set.
UnauthorizedStep ==
  /\ cmd' # cmd
  /\ cmd'.topic.serial \notin userDeviceSerials

\* C15: a raw or Home Assistant command whose serial is not in the user's
\* device set is ignored: no object is read or written for it, the
\* subscription manager is not notified and nothing is published.
C15_UnauthorizedCommandIgnored ==
  [][UnauthorizedStep =>
       /\ rows' = rows
       /\ pending' = pending
       /\ notified' = << >>
       /\ published' = << >>
       /\ cmd'.pc = "done"
       /\ cmd'.currentObj = NoState
       /\ cmd'.deviceObj = NoState
       /\ cmd'.sharedObj = NoState]_vars

\* A Home Assistant command for B was dropped by a ready integration that
\* serves A only, although device.B and shared.B exist.
C15_Witness ==
  /\ cmd.pc = "done"
  /\ cmd.outcome = "unauthorized"
  /\ cmd.topic = [serial |-> "B", objectType |-> "ha", field |-> "mode"]
  /\ userDeviceSerials = { "A" }
  /\ isReady
  /\ getState(rows, "B", "device.B") # NoState
  /\ getState(rows, "B", "shared.B") # NoState

\* The command handled last was ha/«command»/set, it went through to the
\* end and its statements are executed.
HandledHa(command) ==
  /\ cmd.pc = "done"
  /\ cmd.outcome = "executed"
  /\ cmd.topic.objectType = "ha"
  /\ cmd.topic.field = command
  /\ pending = << >>

\* C16: once ha/mode/set with payload heat is handled for an authorised
\* serial with device and shared objects, shared.target_temperature_type is
\* "heat" with a revision greater than before, and the handler has
\* republished ha/mode, retained, with payload heat.
C16_ModeHeatStoredAndRepublished ==
  (HandledHa("mode") /\ cmd.message = "heat") =>
    LET serial == cmd.topic.serial
        sharedObj == getState(rows, serial, SharedKey(serial))
    IN /\ GetProp(sharedObj.value, "target_temperature_type") = Str("heat")
       /\ sharedObj.object_revision > cmd.sharedObj.object_revision
       /\ \E i \in DOMAIN cmd.republished :
            cmd.republished[i]
              = Message(HaTopic(serial, "mode"), "heat", TRUE, 0)

\* The step executes the last statement of the command in hand.
LastStatementRuns ==
  /\ pending # << >>
  /\ pending' = << >>

\* C19: when the statements of a preset command are executed, device.«serial»
\* holds auto_away = 2 and away = true for preset away, auto_away = 0 and
\* away = false for preset home, whatever the two fields held before.
C19_PresetWritesBothFields ==
  [][(/\ LastStatementRuns
      /\ cmd.topic.objectType = "ha"
      /\ cmd.topic.field = "preset"
      /\ cmd.step = 3) =>
       LET serial == cmd.topic.serial
           device == getState(rows', serial, DeviceKey(serial)).value
       IN IF cmd.message = "away"
          THEN /\ GetProp(device, "auto_away") = Num(2)
               /\ GetProp(device, "away") = Bool(TRUE)
          ELSE /\ GetProp(device, "auto_away") = Num(0)
               /\ GetProp(device, "away") = Bool(FALSE)]_vars

\* C20: the write of a raw command changes no field of the object but the
\* one named in the topic: every other field holds after the write what it
\* held immediately before it.
C20_RawCommandChangesOneField ==
  [][(/\ LastStatementRuns
      /\ cmd.topic.objectType # "ha"
      /\ cmd.outcome = "executed") =>
       LET serial == cmd.topic.serial
           objectKey == cmd.topic.objectType \o "." \o serial
           before == getState(rows, serial, objectKey).value
           after == getState(rows', serial, objectKey).value
       IN \A i \in DOMAIN KeyOrder :
            KeyOrder[i] # cmd.topic.field =>
              GetProp(before, KeyOrder[i]) = GetProp(after, KeyOrder[i])]_vars

\* ------------------------------------------------------------------------
\* Properties of the fan timer in the stored value
\* ------------------------------------------------------------------------
\* C21: one explicit fan-off written over a stored value with an active fan
\* timer clears the fan-timer fields: no fan field that the write does not
\* name keeps its earlier value, and the stored value no longer has an
\* active fan timer.
C21_ExplicitFanOffClears ==
  ( /\ pStep = "text"
    /\ isObject(pCurrent)
    /\ ActiveFanTimer(pCurrent, now)
    /\ ExplicitFanOff(pIncoming) )
  => /\ \A f \in FanTimerFields :
          (HasProp(pCurrent, f) /\ ~HasProp(pIncoming, f))
            => GetProp(JSONparse(pText), f) # GetProp(pCurrent, f)
     /\ ~ActiveFanTimer(JSONparse(pText), now)

\* The step binds the text of a write without fan-timer fields over a
\* stored value whose fan timer is active.
AppliesOverActiveTimer ==
  /\ pStep' \in { "text", "again" }
  /\ pStep' # pStep \/ pStep = "again"
  /\ isObject(pCurrent')
  /\ ActiveFanTimer(pCurrent', now)
  /\ NoFanFields(pIncoming)

\* C22: while a fan timer is active, each application of a write without
\* fan-timer fields leaves the five fan-timer fields of the stored value as
\* they were, and applying the write again stores what the application
\* before it stored.
C22_OmittingWriteKeepsFanFields ==
  [][AppliesOverActiveTimer =>
       /\ \A f \in FanTimerFields :
            GetProp(JSONparse(pText'), f) = GetProp(pCurrent', f)
       /\ pStep' = "again" => JSONparse(pText') = pCurrent']_vars

\* Scenario S1 applied twice: {temperature: 21} over the running timer.
C22_Witness ==
  /\ pStep = "again"
  /\ pIncoming = WTemp
  /\ pCurrent = Obj([fan_timer_timeout |-> Num(9),
                     fan_control_state |-> Bool(TRUE),
                     temperature |-> Num(21)])
  /\ JSONparse(pText) = pCurrent
  /\ ActiveFanTimer(pCurrent, now)

\* ------------------------------------------------------------------------
\* Properties of the aggregation in updateUserAwayStatus
\* ------------------------------------------------------------------------
DeviceValue(table, serial) == getState(table, serial, DeviceKey(serial)).value

\* Some owned device that reports has vacation_mode.
SomeVacation(table) ==
  \E d \in Owned :
    /\ Reports(table, d)
    /\ ToBoolean(GetProp(DeviceValue(table, d), "vacation_mode"))

\* The away_timestamp of the owned devices that report (0 when absent).
AwayTimestamps(table) ==
  { OrZero(ToNumber(GetProp(DeviceValue(table, d), "away_timestamp"))) :
      d \in { e \in Owned : Reports(table, e) } }

\* C23: after updateUserAwayStatus(U), user.U on every owned device has
\* vacation_mode = "some owned device has vacation_mode" and, when some
\* owned device has an away_timestamp, away_timestamp = the greatest one
\* over all owned devices, whatever the order of the devices and whether or
\* not all of them are away.
C23_VacationAndTimestampOverAllDevices ==
  Reconciled =>
    \A d \in Owned :
      /\ getState(rows, d, "user.U") # NoState
      /\ GetProp(getState(rows, d, "user.U").value, "vacation_mode")
           = Bool(SomeVacation(rows))
      /\ (AwayTimestamps(rows) \cup { 0 }) # { 0 } =>
           GetProp(getState(rows, d, "user.U").value, "away_timestamp")
             = Num(MaxOf(AwayTimestamps(rows)))

\* The position of a message in what a step published, 0 when absent.
PositionIn(log, message) ==
  IF \E i \in DOMAIN log : log[i] = message
  THEN CHOOSE i \in DOMAIN log :
         /\ log[i] = message
         /\ \A j \in DOMAIN log : log[j] = message => i <= j
  ELSE 0

\* C24: the step that completes initialize() has published, for every
\* tracked serial with stored objects, each stored object on its raw state
\* topic when publishRaw is set and the derived mode when
\* homeAssistantDiscovery is set, and after them the retained 'online'.
C24_InitializePublishesInitialState ==
  [][(~isReady /\ isReady') =>
       \A serial \in userDeviceSerials :
         LET types == StoredTypes(rows, serial)
             online ==
               PositionIn(published',
                          Message(AvailabilityTopic(serial), "online",
                                  TRUE, 1))
         IN types # << >> =>
              /\ online > 0
              /\ publishRaw =>
                   \A n \in DOMAIN types :
                     \E i \in 1 .. online :
                       published'[i].topic = StateTopic(serial, types[n])
              /\ (homeAssistantDiscovery /\ Len(types) = 2) =>
                   \E i \in 1 .. online :
                     published'[i].topic = HaTopic(serial, "mode")]_vars

\* ------------------------------------------------------------------------
\* MqttIntegration: the device watcher (checkForDeviceChanges every 10 s)
\* ------------------------------------------------------------------------
\* What no step of the watcher touches.
restOfWatch == << restOfBridge, serviceState, client, isReady, cmd, config >>

\* The interval callback: checkForDeviceChanges() up to the two lists.
PassStart(p) ==
  /\ isReady
  /\ pass[p].pc \in { "idle", "done" }
  /\ pass' = [pass EXCEPT ![p] = [pc |-> "remove",
                                  currentSerials |-> currentSerialsRead]]
  /\ published' = << >>
  /\ notified' = << >>
  /\ UNCHANGED << userDeviceSerials, untombstoned >>
  /\ UNCHANGED restOfWatch

\* The publish that can reject in handleDeviceRemoved.
RemovalFailures == { "none", "availability", "discovery" }

\* handleDeviceRemoved(serial): what it publishes, when the publish named
\* by fails rejects.
handleDeviceRemoved(serial, fails) ==
  IF fails = "availability" THEN << >>
  ELSE publishAvailability(serial, "offline")
       \o (IF homeAssistantDiscovery /\ client # "null" /\ fails = "none"
           THEN removeDeviceDiscovery(serial) ELSE << >>)

\* One turn of the loop over the tracked serials: the serial is deleted
\* from the set first; a rejected availability publish ends the pass in the
\* outer catch, a rejected discovery publish is caught where it happens.
PassRemove(p, fails) ==
  /\ pass[p].pc = "remove"
  /\ LET gone == userDeviceSerials \ pass[p].currentSerials
     IN IF gone = {}
        THEN /\ fails = "none"
             /\ pass' = [pass EXCEPT ![p].pc = "add"]
             /\ published' = << >>
             /\ UNCHANGED << userDeviceSerials, untombstoned >>
        ELSE \E serial \in gone :
               /\ fails = "discovery" => homeAssistantDiscovery
               /\ userDeviceSerials' = userDeviceSerials \ { serial }
               /\ published' = handleDeviceRemoved(serial, fails)
               /\ untombstoned' =
                    IF homeAssistantDiscovery /\ fails # "none"
                    THEN untombstoned \cup { serial }
                    ELSE untombstoned \ { serial }
               /\ pass' = [pass EXCEPT
                             ![p].pc = IF fails = "availability"
                                       THEN "done" ELSE "remove"]
  /\ notified' = << >>
  /\ UNCHANGED restOfWatch

\* What the loop over currentSerials publishes for a serial it adds.
deviceAdded(serial, table) ==
  IF homeAssistantDiscovery /\ client # "null"
  THEN publishThermostatDiscovery(serial)
       \o publishHomeAssistantState(serial, table)
       \o publishAvailability(serial, "online")
  ELSE << >>

\* One turn of the loop over currentSerials: has and add, then the three
\* publishes inside their try; after the last turn the pass is complete.
PassAdd(p) ==
  /\ pass[p].pc = "add"
  /\ LET new == pass[p].currentSerials \ userDeviceSerials
     IN IF new = {}
        THEN /\ pass' = [pass EXCEPT ![p].pc = "done"]
             /\ published' = << >>
             /\ UNCHANGED << userDeviceSerials, untombstoned >>
        ELSE \E serial \in new :
               /\ userDeviceSerials' = userDeviceSerials \cup { serial }
               /\ published' = deviceAdded(serial, rows)
               /\ untombstoned' = untombstoned \ { serial }
               /\ UNCHANGED pass
  /\ notified' = << >>
  /\ UNCHANGED restOfWatch

\* What a change of deviceOwners leaves alone.
allButOwners ==
  << db, initPromise, call, stmt, now, uncaught, lastWrite, pureVars,
     watchdogVars, deviceShares, weatherCache, pending, recon, deviceChanged, settled, rows,
     bridgeVars >>

\* A row of deviceOwners is inserted for the user (the device is claimed).
Claim(serial) ==
  /\ \A i \in DOMAIN deviceOwners : deviceOwners[i].serial # serial
  /\ deviceOwners' =
       Append(deviceOwners, [userId |-> BridgeUser, serial |-> serial])
  /\ UNCHANGED allButOwners

\* The user's row of deviceOwners is deleted (the device is released).
Release(serial) ==
  /\ \E i \in DOMAIN deviceOwners : deviceOwners[i].serial = serial
  /\ deviceOwners' = SelectSeq(deviceOwners, LAMBDA r : r.serial # serial)
  /\ UNCHANGED allButOwners

\* subscribeToCommands(): the patterns the client is subscribed to.
Subscribed(topic) ==
  IF topic.objectType = "ha" THEN homeAssistantDiscovery ELSE publishRaw

\* onDeviceConnected(serial) and onDeviceDisconnected(serial)
onDeviceAvailability(serial, status) ==
  IF ~has(userDeviceSerials, serial) THEN << >>
  ELSE publishAvailability(serial, status)

DeviceAvailability(serial, status) ==
  /\ cmd.pc \in { "idle", "done" }
  /\ published' = onDeviceAvailability(serial, status)
  /\ published' # published
  /\ notified' = << >>
  /\ UNCHANGED << userDeviceSerials, pass, untombstoned >>
  /\ UNCHANGED restOfWatch

\* The one device the commands and the mutations of this part address.
WatchTopics ==
  { [serial |-> "B", objectType |-> "device", field |-> "name"],
    [serial |-> "B", objectType |-> "ha", field |-> "mode"] }
WatchTable ==
  << Row("A", DeviceKey("A"), 1, 0,
         JSONstringify(Obj([auto_away |-> Num(0), away |-> Bool(FALSE)])),
         0),
     Row("B", DeviceKey("B"), 1, 0,
         JSONstringify(Obj([auto_away |-> Num(0), away |-> Bool(FALSE)])),
         0),
     Row("B", SharedKey("B"), 4, 0,
         JSONstringify(Obj([target_temperature_type |-> Str("cool")])),
         0) >>
Configs ==
  [publishRaw : BOOLEAN, homeAssistantDiscovery : BOOLEAN]

WatchInit ==
  /\ db = "open"
  /\ initPromise = "db"
  /\ rows = WatchTable
  /\ call = [c \in Calls |-> IdleCall]
  /\ stmt = [c \in Calls |-> NoStmt]
  /\ now = 0
  /\ uncaught = FALSE
  /\ lastWrite = NoWrite
  /\ PureIdle
  /\ WatchdogIdle
  /\ BridgeConstructed
  /\ config \in Configs
  /\ deviceOwners \in OwnerTables
  /\ deviceShares = << >>
  /\ weatherCache = << >>
  /\ pending = << >>
  /\ recon = IdleRecon
  /\ deviceChanged = FALSE
  /\ settled = NoSnapshot

WatchNext ==
  \/ Connect
  \/ Initialized
  \/ \E p \in Passes : PassStart(p)
  \/ \E p \in Passes, fails \in RemovalFailures : PassRemove(p, fails)
  \/ \E p \in Passes : PassAdd(p)
  \/ \E serial \in ReconSerials : Claim(serial)
  \/ \E serial \in ReconSerials : Release(serial)

SpecWatching == WatchInit /\ [][WatchNext]_vars

\* The interval fires every 10 s and every await of a pass settles.
WatchFairness ==
  /\ WF_vars(Connect)
  /\ WF_vars(Initialized)
  /\ \A p \in Passes :
       /\ WF_vars(PassStart(p))
       /\ WF_vars(\E fails \in RemovalFailures : PassRemove(p, fails))
       /\ WF_vars(PassAdd(p))

SpecWatchingFair == SpecWatching /\ WatchFairness

\* Commands, mutations and availability events beside one pass at a time.
IsolationNext ==
  \/ Connect
  \/ Initialized
  \/ PassStart(1)
  \/ \E fails \in RemovalFailures : PassRemove(1, fails)
  \/ PassAdd(1)
  \/ \E serial \in ReconSerials : Claim(serial)
  \/ \E serial \in ReconSerials : Release(serial)
  \/ \E topic \in WatchTopics :
       /\ Subscribed(topic)
       /\ \E message \in Messages(topic) : HandleCommand(topic, message)
  \/ GetCurrentObj
  \/ UpsertCommand
  \/ GetDeviceAndShared
  \/ UpdateValue
  \/ RepublishState
  \/ \E j \in 1 .. 2 : BridgeDriverRun(j)
  \/ TransportPut("B", Obj([auto_away |-> Num(2), away |-> Bool(TRUE)]))
  \/ \E status \in { "online", "offline" } : DeviceAvailability("B", status)

SpecIsolation == WatchInit /\ [][IsolationNext]_vars

\* The log holds a message on the topic.
PublishedOn(log, topic) == \E i \in DOMAIN log : log[i].topic = topic

\* C25: the step in which a pass adds a serial to the tracked set publishes
\* the retained 'online' of the serial, its stored objects on the raw state
\* topics when publishRaw is set, the derived mode and the discovery payload
\* when homeAssistantDiscovery is set.
C25_AddedSerialPublished ==
  [][\A serial \in ReconSerials :
       (/\ isReady
        /\ serial \notin userDeviceSerials
        /\ serial \in userDeviceSerials') =>
         LET types == StoredTypes(rows, serial)
         IN /\ \E i \in DOMAIN published' :
                 published'[i]
                   = Message(AvailabilityTopic(serial), "online", TRUE, 1)
            /\ homeAssistantDiscovery =>
                 PublishedOn(published', DiscoveryTopic(serial))
            /\ publishRaw =>
                 \A n \in DOMAIN types :
                   PublishedOn(published', StateTopic(serial, types[n]))
            /\ (homeAssistantDiscovery /\ Len(types) = 2) =>
                 PublishedOn(published', HaTopic(serial, "mode"))]_vars

\* C26: a serial that was dropped from the tracked set while its discovery
\* payload stayed retained gets its tombstones published by a later pass
\* (or is tracked again).
C26_TombstonesEventually ==
  \A serial \in ReconSerials :
    (serial \in untombstoned) ~> (serial \notin untombstoned)

\* C27: when a pass completes without error, every tracked serial is one
\* that pass has read (in the owned or the shared list) or one the user
\* owns or is shared by then.
C27_TrackedSetIsWhatThePassRead ==
  [][\A p \in Passes :
       (pass[p].pc = "add" /\ pass'[p].pc = "done") =>
         userDeviceSerials'
           \subseteq (pass[p].currentSerials \cup currentSerialsRead)]_vars

\* C28: the step in which a command issues its write finds the serial in
\* the tracked set.
C28_WriteOnlyWhileTracked ==
  [][(cmd.pc \in { "upsert", "ha_update" } /\ cmd' # cmd) =>
       has(userDeviceSerials, cmd.topic.serial)]_vars

\* The topics that carry the state of a serial, raw or derived.
StateTopics(serial) ==
  { StateTopic(serial, ObjectTypes[n]) : n \in DOMAIN ObjectTypes }
  \cup { FieldTopic(serial, ObjectTypes[n], KeyOrder[k]) :
           n \in DOMAIN ObjectTypes, k \in DOMAIN KeyOrder }
  \cup { HaTopic(serial, name) : name \in { "mode", "preset" } }

\* C29: whenever the bridge publishes on a state topic of a serial, the
\* user owns or is shared that serial.
C29_StateOnlyOfOwnSerials ==
  [][published' # published =>
       \A i \in DOMAIN published' :
         \A serial \in ReconSerials :
           published'[i].topic \in StateTopics(serial) =>
             serial \in currentSerialsRead]_vars

\* ------------------------------------------------------------------------
\* MqttIntegration: the derived fan_mode command beside a writing device
\* ------------------------------------------------------------------------
FanTopic == [serial |-> "B", objectType |-> "ha", field |-> "fan_mode"]
FanFields == { "fan_control_state", "fan_timer_active", "fan_timer_timeout" }

\* device.B with the fan idle and with a timer running; shared.B.
FanDeviceValues ==
  { Obj([fan_control_state |-> Bool(FALSE), fan_timer_active |-> Bool(FALSE),
         fan_timer_timeout |-> Num(0), away |-> Bool(FALSE)]),
    Obj([fan_control_state |-> Bool(TRUE), fan_timer_active |-> Bool(TRUE),
         fan_timer_timeout |-> Num(3609), away |-> Bool(FALSE)]) }
FanTables ==
  { << Row("B", DeviceKey("B"), 1, 0, JSONstringify(device), 0),
       Row("B", SharedKey("B"), 4, 0,
           JSONstringify(Obj([target_temperature_type |-> Str("cool")])),
           0) >> : device \in FanDeviceValues }

\* Date.now() when the command is handled (it stays put meanwhile).
FanNows == { 0, 1999, 7000 }

\* What the device itself reports while the command is in flight.
FanReports ==
  { Obj([away |-> Bool(TRUE)]),
    Obj([fan_timer_timeout |-> Num(5)]) }

FanInit ==
  /\ db = "open"
  /\ initPromise = "db"
  /\ rows \in FanTables
  /\ call = [c \in Calls |-> IdleCall]
  /\ stmt = [c \in Calls |-> NoStmt]
  /\ now \in FanNows
  /\ uncaught = FALSE
  /\ lastWrite = NoWrite
  /\ PureIdle
  /\ WatchdogIdle
  /\ BridgeConstructed
  /\ config = [publishRaw |-> TRUE, homeAssistantDiscovery |-> TRUE]
  /\ deviceOwners = << [userId |-> BridgeUser, serial |-> "B"] >>
  /\ deviceShares = << >>
  /\ weatherCache = << >>
  /\ pending = << >>
  /\ recon = IdleRecon
  /\ deviceChanged = FALSE
  /\ settled = NoSnapshot

FanNext ==
  \/ Connect
  \/ Initialized
  \/ \E message \in Messages(FanTopic) : HandleCommand(FanTopic, message)
  \/ GetDeviceAndShared
  \/ UpdateValue
  \/ RepublishState
  \/ BridgeDriverRun(1)
  \/ \E value \in FanReports : TransportPut("B", value)

SpecFanMode == FanInit /\ [][FanNext]_vars

\* The three fields of device.B as stored in the table.
StoredFan(table) ==
  LET device == getState(table, "B", DeviceKey("B")).value
  IN [f \in FanFields |-> GetProp(device, f)]

\* The values fan_mode commands: on and anything else.
Commanded(valueStr) ==
  IF valueStr = "on"
  THEN [f \in FanFields |->
          IF f = "fan_timer_timeout" THEN Num((now \div 1000) + 3600)
          ELSE Bool(TRUE)]
  ELSE [f \in FanFields |->
          IF f = "fan_timer_timeout" THEN Num(0) ELSE Bool(FALSE)]

\* C30: a fan_mode command hands exactly one statement to the store, with
\* which its switch is over; and the step that executes this statement
\* leaves all three fan fields of the stored device object at the
\* commanded values, so that the stored object goes from the state before
\* the command's write to the state with all three fields in one step.
C30_FanModeWritesThreeFieldsAtOnce ==
  [][/\ (cmd.pc = "ha_update" /\ cmd' # cmd) =>
          /\ Len(pending') = Len(pending) + 1
          /\ cmd'.pc = "ha_publish"
     /\ (Len(pending') < Len(pending)) =>
          StoredFan(rows') = Commanded(cmd.message)]_vars

\* fan_mode = on, handled at 1999 ms over an idle fan, is executed: the
\* stored object holds true, true and 3601 where it held false, false, 0.
C30_Witness ==
  /\ cmd.pc = "done"
  /\ cmd.outcome = "executed"
  /\ cmd.message = "on"
  /\ now = 1999
  /\ pending = << >>
  /\ GetProp(cmd.deviceObj.value, "fan_control_state") = Bool(FALSE)
  /\ StoredFan(rows)
       = [f \in FanFields |->
            IF f = "fan_timer_timeout" THEN Num(3601) ELSE Bool(TRUE)]

\* ------------------------------------------------------------------------
\* markSeen, the availability state machine and the handler
\* ------------------------------------------------------------------------

\* C31: markSeen(serial) leaves the serial known, available and with
\* lastSeen = now in every case; with a handler set it calls the handler
\* with (serial, true) exactly when the serial was unknown or was marked
\* unavailable, and makes no call when the serial was already available.
C31_MarkSeenEmitsOnChangeOnly ==
  [][ \A s \in WatchedSerials :
        MarkSeen(s) =>
          /\ Known(s)'
          /\ deviceStates'[s].isAvailable
          /\ deviceStates'[s].lastSeen = now
          /\ onAvailabilityChange = "set" =>
               handlerCalls' =
                 IF ~Known(s) \/ ~deviceStates[s].isAvailable
                 THEN << << s, TRUE >> >>
                 ELSE << >>
          /\ onAvailabilityChange = "null" => handlerCalls' = << >> ]_vars

\* markSeen has just brought back a serial that a sweep had marked
\* unavailable: the handler was called with (B, true) and lastSeen is now.
C31_Witness ==
  /\ onAvailabilityChange = "set"
  /\ Known("B")
  /\ getAvailability("B")
  /\ deviceStates["B"].lastSeen = now
  /\ now > TimeoutMs
  /\ "B" \notin activeSerials
  /\ watchdogTimer # NoTimer
  /\ now < watchdogTimer.next
  /\ now > watchdogTimer.next - CheckIntervalMs
  /\ handlerCalls = << << "B", TRUE >> >>

\* The sweep of this step found the serial among the active subscriptions.
SweepRefreshes(serial) == SweepStep /\ Refreshes(serial)

\* C32 as stated: a known serial stays known, an unknown serial becomes
\* known only as available, and only through markSeen.
C32_UnknownLeftOnlyByMarkSeen ==
  [][ \A s \in WatchedSerials :
        /\ Known(s) => Known(s)'
        /\ (~Known(s) /\ Known(s)') =>
             (deviceStates'[s].isAvailable /\ MarkSeen(s)) ]_vars

\* C32 (amended): a known serial stays known; an unknown serial becomes
\* known only as available, through markSeen or through a sweep that finds
\* it among the active subscriptions; an available serial becomes
\* unavailable only through the timeout of a sweep or forceUnavailable; an
\* unavailable one becomes available only through markSeen or such a sweep.
C32_AvailabilityStateMachine ==
  [][ \A s \in WatchedSerials :
        /\ Known(s) => Known(s)'
        /\ (~Known(s) /\ Known(s)') =>
             /\ deviceStates'[s].isAvailable
             /\ MarkSeen(s) \/ SweepRefreshes(s)
        /\ (Known(s) /\ getAvailability(s) /\ ~getAvailability(s)') =>
             \/ ForceUnavailable(s)
             \/ SweepStep /\ ~Refreshes(s) /\ isTimedOut(deviceStates[s])
        /\ (Known(s) /\ ~getAvailability(s) /\ getAvailability(s)') =>
             MarkSeen(s) \/ SweepRefreshes(s) ]_vars

\* The first sweep of the utils watchdog has just made a subscribed serial
\* known: it is available, last seen at the time of the sweep, and the
\* handler was called with (B, true).
C32_Witness ==
  /\ watchdogClass = "utils"
  /\ onAvailabilityChange = "set"
  /\ "B" \in activeSerials
  /\ Known("B")
  /\ getAvailability("B")
  /\ watchdogTimer # NoTimer
  /\ watchdogTimer.startedAt = 0
  /\ now = CHECK_INTERVAL_MS
  /\ watchdogTimer.next = now + CHECK_INTERVAL_MS
  /\ deviceStates["B"].lastSeen = now
  /\ handlerCalls = << << "B", TRUE >> >>

\* ------------------------------------------------------------------------
\* The watchdog with two serials and a handler that may throw
\* ------------------------------------------------------------------------
HandlerSerials == { "A", "B" }

HandlerInit ==
  /\ db = "null"
  /\ initPromise = "none"
  /\ rows = << >>
  /\ call = [c \in Calls |-> IdleCall]
  /\ stmt = [c \in Calls |-> NoStmt]
  /\ now = 0
  /\ uncaught = FALSE
  /\ lastWrite = NoWrite
  /\ PureIdle
  /\ watchdogClass \in { "utils", "mqtt" }
  /\ deviceStates = [s \in HandlerSerials |-> NoDevice]
  /\ watchdogTimer = NoTimer
  /\ subscriptionManager = "null"
  /\ onAvailabilityChange = "null"
  /\ activeSerials = {}
  /\ handlerCalls = << >>
  /\ forcedOff = {}
  /\ lastCall = [s \in HandlerSerials |-> "none"]
  /\ jitter = 0
  /\ ReconcilerIdle
  /\ BridgeIdle

\* The timer is started once the timeout has passed in silence; from then
\* on time passes from one run of the timer to the next.
HandlerNext ==
  \/ now >= TimeoutMs /\ Start
  \/ watchdogTimer = NoTimer /\ Elapse(TimeoutMs)
  \/ watchdogTimer # NoTimer /\ ElapseInterval
  \/ SetAvailabilityChangeHandler
  \/ SetThrowingHandler
  \/ CheckDeviceTimeouts
  \/ \E serial \in HandlerSerials : MarkSeen(serial)
  \/ \E serial \in HandlerSerials : ForceUnavailable(serial)
  \/ \E serial \in HandlerSerials : Subscribe(serial)
  \/ \E serial \in HandlerSerials : Unsubscribe(serial)

SpecHandler == HandlerInit /\ [][HandlerNext]_vars

\* C33: with a handler that throws, no exception leaves markSeen,
\* forceUnavailable or the sweep; markSeen and forceUnavailable have updated
\* the state of the serial, and the sweep has treated every serial: each
\* one that had timed out is unavailable and was reported, each one with an
\* active subscription is available and last seen now.
C33_HandlerExceptionContained ==
  [][ onAvailabilityChange = "throws" =>
        /\ ~uncaught'
        /\ \A s \in HandlerSerials :
             /\ MarkSeen(s) =>
                  getAvailability(s)' /\ deviceStates'[s].lastSeen = now
             /\ ForceUnavailable(s) => ~getAvailability(s)'
             /\ (SweepStep /\ ~Refreshes(s) /\ TimesOut(deviceStates[s])) =>
                  /\ ~getAvailability(s)'
                  /\ CallsAbout(handlerCalls', s) = << << s, FALSE >> >>
             /\ SweepRefreshes(s) =>
                  getAvailability(s)' /\ deviceStates'[s].lastSeen = now ]_vars

\* One sweep has found both serials timed out and has called the throwing
\* handler for each of them.
C33_Witness ==
  /\ onAvailabilityChange = "throws"
  /\ ~uncaught
  /\ Len(handlerCalls) = 2
  /\ \A s \in HandlerSerials :
       /\ Known(s)
       /\ ~getAvailability(s)
       /\ s \notin forcedOff
       /\ CallsAbout(handlerCalls, s) = << << s, FALSE >> >>

\* C34 as stated: the calls about a serial alternate, starting with true,
\* and getAvailability is the value of the last call, false when there was
\* none.
C34_CallsAlternateAndMatch ==
  \A s \in HandlerSerials :
    /\ lastCall[s] # "broken"
    /\ getAvailability(s) = (lastCall[s] = "true")

\* C34 (amended): for a serial that became known with a handler set, no two
\* calls in a row have the same value, the first one is true, and
\* getAvailability is the value of the last call (false before the first).
C34_CallsAlternateOnceRegistered ==
  \A s \in HandlerSerials :
    /\ lastCall[s] # "broken"
    /\ (Known(s) /\ onAvailabilityChange # "null" /\ lastCall[s] # "late")
         => /\ lastCall[s] \in { "true", "false" }
            /\ getAvailability(s) = (lastCall[s] = "true")
    /\ (~Known(s) /\ onAvailabilityChange # "null") => lastCall[s] = "none"

\* B, once timed out or forced unavailable, has just been marked seen again
\* while A was forced unavailable: the last calls were (B, true), (A, false).
C34_Witness ==
  /\ onAvailabilityChange # "null"
  /\ lastCall["B"] = "true"
  /\ lastCall["A"] = "false"
  /\ "A" \in forcedOff
  /\ getAvailability("B")
  /\ ~getAvailability("A")
  /\ "B" \notin activeSerials
  /\ now > TimeoutMs
  /\ deviceStates["B"].lastSeen = now
  /\ handlerCalls = << << "B", TRUE >> >>

\* ------------------------------------------------------------------------
\* MqttIntegration: commands that are not valid
\* ------------------------------------------------------------------------
\* A topic is held as its levels: nest/B/ha/mode/set is
\* << "nest", "B", "ha", "mode", "set" >>; an empty level is "".
RECURSIVE JoinLevels(_)
JoinLevels(levels) ==
  IF Len(levels) = 1 THEN levels[1]
  ELSE levels[1] \o "/" \o JoinLevels(Tail(levels))

\* topic.includes('/ha/') && topic.endsWith('/set')
IsHaTopic(levels) ==
  /\ Len(levels) >= 2
  /\ levels[Len(levels)] = "set"
  /\ \E i \in 2 .. Len(levels) - 1 : levels[i] = "ha"

NoMatch == [k |-> "null"]

\* Variant of the pattern that does not anchor the prefix.
haMatchAnyPrefix(levels) ==
  IF /\ Len(levels) >= 5
     /\ levels[2] # ""
     /\ levels[3] = "ha"
     /\ levels[Len(levels)] = "set"
     /\ JoinLevels(SubSeq(levels, 4, Len(levels) - 1)) # ""
  THEN [serial |-> levels[2], objectType |-> "ha",
        field |-> JoinLevels(SubSeq(levels, 4, Len(levels) - 1)),
        levels |-> levels]
  ELSE NoMatch

\* topic.match(^prefix/([^/]+)/ha/(.+)/set$): serial and command
haMatch(levels) ==
  IF /\ Len(levels) >= 5
     /\ levels[1] = topicPrefix
     /\ levels[2] # ""
     /\ levels[3] = "ha"
     /\ levels[Len(levels)] = "set"
     /\ JoinLevels(SubSeq(levels, 4, Len(levels) - 1)) # ""
  THEN [serial |-> levels[2], objectType |-> "ha",
        field |-> JoinLevels(SubSeq(levels, 4, Len(levels) - 1)),
        levels |-> levels]
  ELSE NoMatch

\* parseCommandTopic(topic, prefix): prefix/serial/objectType/field/set
parseCommandTopic(levels, prefix) ==
  IF /\ Len(levels) = 5
     /\ levels[1] = prefix
     /\ levels[5] = "set"
     /\ \A i \in 2 .. 4 : levels[i] # ""
  THEN [serial |-> levels[2], objectType |-> levels[3], field |-> levels[4],
        levels |-> levels]
  ELSE NoMatch

\* What handleCommand and handleHomeAssistantCommand make of the topic.
parsedTopic(levels) ==
  IF IsHaTopic(levels) THEN haMatch(levels)
  ELSE parseCommandTopic(levels, topicPrefix)

\* handleCommand(topic, message) from the topic as the broker delivers it: a
\* topic that cannot be taken apart ends the handler with a warning.
HandleTopic(levels, message) ==
  IF parsedTopic(levels) # NoMatch
  THEN HandleCommand(parsedTopic(levels), message)
  ELSE /\ client = "connected"
       /\ cmd.pc \in { "idle", "done" }
       /\ cmd.n < MaxCommands
       /\ pending = << >>
       /\ cmd' =
            [pc |-> "done", n |-> cmd.n + 1,
             topic |-> [k |-> "null", levels |-> levels],
             message |-> message, outcome |-> "invalid topic",
             currentObj |-> NoState, deviceObj |-> NoState,
             sharedObj |-> NoState, step |-> 1, republished |-> << >>]
       /\ published' = << >>
       /\ notified' = << >>
       /\ UNCHANGED << client, isReady, userDeviceSerials, watchVars >>
       /\ UNCHANGED serviceState
       /\ UNCHANGED restOfBridge

\* Topics the subscriptions nest/+/+/+/set and nest/+/ha/+/set let through,
\* and one of another prefix.
InvalidTopics ==
  { << "nest", "B", "device", "", "set" >>,
    << "nest", "", "device", "name", "set" >>,
    << "nest", "B", "ha", "", "set" >>,
    << "nest", "", "ha", "mode", "set" >>,
    << "other", "B", "ha", "mode", "set" >> }
UnknownTopics == { << "nest", "B", "ha", "bogus", "set" >> }
ValidTopics ==
  { << "nest", "B", "device", "name", "set" >>,
    << "nest", "B", "shared", "name", "set" >>,
    << "nest", "B", "ha", "mode", "set" >>,
    << "nest", "B", "ha", "preset", "set" >> }
TopicMessages(levels) ==
  IF levels[3] # "ha" THEN { "hello" }
  ELSE IF levels[4] = "preset" THEN { "away" }
  ELSE { "heat" }

\* B with and without its device and shared objects.
InvalidTables ==
  { device \o shared :
      device \in BridgeDeviceRows("B"), shared \in BridgeSharedRows("B") }

InvalidInit ==
  /\ db = "open"
  /\ initPromise = "db"
  /\ rows \in InvalidTables
  /\ call = [c \in Calls |-> IdleCall]
  /\ stmt = [c \in Calls |-> NoStmt]
  /\ now = 0
  /\ uncaught = FALSE
  /\ lastWrite = NoWrite
  /\ PureIdle
  /\ WatchdogIdle
  /\ BridgeConstructed
  /\ config = [publishRaw |-> TRUE, homeAssistantDiscovery |-> TRUE]
  /\ deviceOwners = << [userId |-> BridgeUser, serial |-> "B"] >>
  /\ deviceShares = << >>
  /\ weatherCache = << >>
  /\ pending = << >>
  /\ recon = IdleRecon
  /\ deviceChanged = FALSE
  /\ settled = NoSnapshot

InvalidNext ==
  \/ Connect
  \/ Initialized
  \/ \E levels \in InvalidTopics \cup UnknownTopics \cup ValidTopics :
       \E message \in TopicMessages(levels) : HandleTopic(levels, message)
  \/ GetCurrentObj
  \/ UpsertCommand
  \/ GetDeviceAndShared
  \/ UpdateValue
  \/ RepublishState
  \/ BridgeDriverRun(1)
  \/ \E value \in AwayReports : TransportPut("B", value)

SpecInvalid == InvalidInit /\ [][InvalidNext]_vars

\* The derived commands of the integration.
DerivedCommands ==
  { "mode", "target_temperature", "target_temperature_low",
    "target_temperature_high", "fan_mode", "preset" }

\* A command topic is nest/«serial»/«type»/«field»/set or
\* nest/«serial»/ha/«command»/set, with no level empty.
WellFormedTopic(levels) ==
  /\ Len(levels) = 5
  /\ levels[1] = "nest"
  /\ levels[5] = "set"
  /\ \A i \in 2 .. 4 : levels[i] # ""

\* An object the command needs is not in the table: «type».«serial» for a
\* raw command, device.«serial» or shared.«serial» for a derived one.
RequiredMissing(levels, table) ==
  IF levels[3] = "ha"
  THEN \/ getState(table, levels[2], DeviceKey(levels[2])) = NoState
       \/ getState(table, levels[2], SharedKey(levels[2])) = NoState
  ELSE getState(table, levels[2], levels[3] \o "." \o levels[2]) = NoState

\* The command in hand is not valid: its topic cannot be taken apart, its
\* derived command is not one of the integration's, or an object it
\* requires does not exist.
InvalidCommand(command, table) ==
  /\ command.pc # "idle"
  /\ \/ ~WellFormedTopic(command.topic.levels)
     \/ /\ command.topic.levels[3] = "ha"
        /\ command.topic.levels[4] \notin DerivedCommands
     \/ RequiredMissing(command.topic.levels, table)

\* C36: no step of a command that is not valid changes the stored rows, the
\* statements handed to the driver, the watchdog's state or the tracked
\* set, and none notifies a subscriber.
C36_InvalidCommandMutatesNothing ==
  [][(cmd' # cmd /\ InvalidCommand(cmd', rows)) =>
       /\ rows' = rows
       /\ pending' = pending
       /\ deviceStates' = deviceStates
       /\ userDeviceSerials' = userDeviceSerials
       /\ notified' = << >>]_vars

\* A command with no case in the switch has been handled to the end, over a
\* device that has both its objects: the state was republished and nothing
\* was handed to the driver.
C36_Witness ==
  /\ cmd.pc = "done"
  /\ cmd.outcome = "executed"
  /\ cmd.topic.levels = << "nest", "B", "ha", "bogus", "set" >>
  /\ cmd.deviceObj # NoState
  /\ cmd.sharedObj # NoState
  /\ cmd.republished # << >>
  /\ pending = << >>

\* ------------------------------------------------------------------------
\* SQLite3Service.getState and getDeviceState called by a reader
\* ------------------------------------------------------------------------
\* Text that JSON.parse does not accept.
BadText == << LBrace >>

ReadKeys == { "device.A", "shared.A" }
ReadRows(objectKey) ==
  { << >>,
    << Row("A", objectKey, 1, 0, JSONstringify(WTemp), 0) >>,
    << Row("A", objectKey, 1, 0, BadText, 0) >> }
ReadTables ==
  { device \o shared :
      device \in ReadRows("device.A"), shared \in ReadRows("shared.A") }

\* The stored text of the key is not JSON.
BadKey(table, serial, objectKey) ==
  /\ Matching(table, serial, objectKey) # {}
  /\ getState(table, serial, objectKey) = SyntaxError

\* getDeviceState: the loop over the rows of the serial parses each value;
\* the first one that JSON.parse rejects throws before resolve is reached.
getDeviceState(table, serial) ==
  LET keys == { table[i].object_key :
                  i \in { j \in DOMAIN table : table[j].serial = serial } }
  IN IF \E i \in DOMAIN table :
          table[i].serial = serial /\ JSONparse(table[i].value) = SyntaxError
     THEN SyntaxError
     ELSE [key \in keys |->
             LET row == table[MaxOf(Matching(table, serial, key))]
             IN [k |-> "DeviceObject",
                 serial |-> serial,
                 updatedAt |-> row.updatedAt,
                 object_key |-> row.object_key,
                 object_revision |-> row.object_revision,
                 object_timestamp |-> row.object_timestamp,
                 value |-> JSONparse(row.value)]]

\* A reader calls getState(serial, objectKey) or getDeviceState(serial);
\* getDb() hands back the open connection and the SELECT goes to the driver.
ReadCall(c, op, objectKey) ==
  /\ Running
  /\ db = "open"
  /\ call[c].pc = "idle"
  /\ call' = [call EXCEPT ![c] =
                [pc |-> "select", op |-> op, serial |-> "A",
                 objectKey |-> objectKey, result |-> Undefined]]
  /\ UNCHANGED << db, initPromise, rows, stmt, now, uncaught, lastWrite >>
  /\ UNCHANGED pureVars
  /\ UNCHANGED serviceVars

\* The driver calls back with the row(s): JSON.parse runs inside the
\* callback, outside the try of the method; when it throws, the exception
\* is uncaught and neither resolve nor reject is called.
ReadCallback(c) ==
  /\ Running
  /\ call[c].pc = "select"
  /\ LET got ==
           IF call[c].op = "getState"
           THEN getState(rows, call[c].serial, call[c].objectKey)
           ELSE getDeviceState(rows, call[c].serial)
     IN IF got = SyntaxError
        THEN /\ uncaught' = TRUE
             /\ call' = [call EXCEPT ![c].pc = "hung"]
        ELSE /\ call' = [call EXCEPT ![c].pc = "resolved", ![c].result = got]
             /\ UNCHANGED uncaught
  /\ UNCHANGED << db, initPromise, rows, stmt, now, lastWrite >>
  /\ UNCHANGED pureVars
  /\ UNCHANGED serviceVars

\* The driver calls back with err: reject(err).
ReadError(c) ==
  /\ Running
  /\ call[c].pc = "select"
  /\ call' = [call EXCEPT ![c].pc = "rejected"]
  /\ UNCHANGED << db, initPromise, rows, stmt, now, uncaught, lastWrite >>
  /\ UNCHANGED pureVars
  /\ UNCHANGED serviceVars

ReadsInit ==
  /\ db = "open"
  /\ initPromise = "db"
  /\ rows \in ReadTables
  /\ call = [c \in Calls |-> IdleCall]
  /\ stmt = [c \in Calls |-> NoStmt]
  /\ now = 0
  /\ uncaught = FALSE
  /\ lastWrite = NoWrite
  /\ PureIdle
  /\ ServiceIdle

ReadsNext ==
  \/ \E c \in Calls, objectKey \in ReadKeys :
       ReadCall(c, "getState", objectKey)
  \/ \E c \in Calls : ReadCall(c, "getDeviceState", "")
  \/ \E c \in Calls : ReadCallback(c)
  \/ \E c \in Calls : ReadError(c)

SpecReads == ReadsInit /\ [][ReadsNext]_vars

\* C37: a read over a row whose text is not JSON raises nothing and does
\* not hang; a getState of such a key that has completed returned none, and
\* a getDeviceState that has completed holds the keys with valid text and
\* no other.
C37_InvalidTextReadsAsAbsent ==
  /\ ~uncaught
  /\ \A c \in Calls :
       /\ call[c].pc # "hung"
       /\ (call[c].pc = "resolved" /\ call[c].op = "getState"
             /\ BadKey(rows, "A", call[c].objectKey))
            => call[c].result = NoState
       /\ (call[c].pc = "resolved" /\ call[c].op = "getDeviceState")
            => DOMAIN call[c].result =
                 { key \in ReadKeys :
                     /\ Matching(rows, "A", key) # {}
                     /\ ~BadKey(rows, "A", key) }

\* ------------------------------------------------------------------------
\* SQLite3Service.checkApiKeyPermission
\* ------------------------------------------------------------------------
NoRow == [k |-> "null"]

\* array.includes(x)
includes(array, x) == \E i \in DOMAIN array : array[i] = x

\* requiredScopes.every((scope) => permissions.scopes.includes(scope))
hasKeyScope(requiredScopes, permissions) ==
  \A i \in DOMAIN requiredScopes :
    includes(permissions.scopes, requiredScopes[i])

\* getDeviceOwner: db.get hands the first row of the serial, or none, and
\* the callback resolves with the owner or with null.
getDeviceOwner(serial) ==
  LET found == SelectSeq(deviceOwners, LAMBDA r : r.serial = serial)
  IN IF found = << >> THEN NoRow ELSE found[1]

\* The row db.get hands the callback of getDeviceSharedWithMe.
SharedRow(userId, serial) ==
  LET found ==
        SelectSeq(deviceShares,
                  LAMBDA r : r.serial = serial /\ r.sharedWithUserId = userId)
  IN IF found = << >> THEN NoRow ELSE found[1]

\* Variant of getDeviceSharedWithMe whose callback resolves with null when
\* there is no row.
getDeviceSharedWithMeOrNull(userId, serial) ==
  IF SharedRow(userId, serial) = NoRow
  THEN [settles |-> TRUE, value |-> NoRow]
  ELSE [settles |-> TRUE,
        value |-> [serial |-> serial,
                   permissions |->
                     JSONparse(SharedRow(userId, serial).permissions)]]

\* getDeviceSharedWithMe: the callback resolves inside if (row) and has no
\* else; the return null after the returned promise is never reached. With
\* no row the promise is never settled.
getDeviceSharedWithMe(userId, serial) ==
  IF SharedRow(userId, serial) = NoRow
  THEN [settles |-> FALSE, value |-> NoRow]
  ELSE [settles |-> TRUE,
        value |-> [serial |-> serial,
                   permissions |->
                     JSONparse(SharedRow(userId, serial).permissions)]]

\* requiredScopes.every(...) over the permissions of the share
hasSharePermissions(requiredScopes, sharedDevice) ==
  \A i \in DOMAIN requiredScopes :
    IF requiredScopes[i] = "read" THEN TRUE
    ELSE IF requiredScopes[i] \in { "write", "control" }
    THEN /\ sharedDevice.permissions.k = "arr"
         /\ includes(sharedDevice.permissions.v, Str("control"))
    ELSE FALSE

\* checkApiKeyPermission(userId, serial, requiredScopes, permissions) up to
\* the await of getDeviceOwner: the test of the allow-list returns false
\* for a serial that is in it.
CheckCall(c, userId, serial, requiredScopes, permissions) ==
  /\ Running
  /\ db = "open"
  /\ call[c].pc = "idle"
  /\ call' = [call EXCEPT ![c] =
                [pc |-> IF /\ Len(permissions.serials) > 0
                           /\ includes(permissions.serials, serial)
                        THEN "resolved" ELSE "owner",
                 op |-> "checkApiKeyPermission", userId |-> userId,
                 serial |-> serial, requiredScopes |-> requiredScopes,
                 permissions |-> permissions, result |-> FALSE]]
  /\ UNCHANGED << db, initPromise, rows, stmt, now, uncaught, lastWrite >>
  /\ UNCHANGED pureVars
  /\ UNCHANGED serviceVars

\* const ownership = await this.getDeviceOwner(serial) and the owner's case
CheckOwner(c) ==
  /\ Running
  /\ call[c].pc = "owner"
  /\ LET ownership == getDeviceOwner(call[c].serial)
     IN call' =
          IF ownership # NoRow /\ ownership.userId = call[c].userId
          THEN [call EXCEPT
                  ![c].pc = "resolved",
                  ![c].result =
                    hasKeyScope(call[c].requiredScopes, call[c].permissions)]
          ELSE [call EXCEPT ![c].pc = "shared"]
  /\ UNCHANGED << db, initPromise, rows, stmt, now, uncaught, lastWrite >>
  /\ UNCHANGED pureVars
  /\ UNCHANGED serviceVars

\* const sharedDevice = await this.getDeviceSharedWithMe(userId, serial) and
\* what follows it; the await of a promise that never settles never returns.
CheckShared(c) ==
  /\ Running
  /\ call[c].pc = "shared"
  /\ LET sharedDevice ==
           getDeviceSharedWithMe(call[c].userId, call[c].serial)
     IN call' =
          IF ~sharedDevice.settles THEN [call EXCEPT ![c].pc = "hung"]
          ELSE IF sharedDevice.value = NoRow
          THEN [call EXCEPT ![c].pc = "resolved", ![c].result = FALSE]
          ELSE [call EXCEPT
                  ![c].pc = "resolved",
                  ![c].result =
                    /\ hasSharePermissions(call[c].requiredScopes,
                                           sharedDevice.value)
                    /\ hasKeyScope(call[c].requiredScopes,
                                   call[c].permissions)]
  /\ UNCHANGED << db, initPromise, rows, stmt, now, uncaught, lastWrite >>
  /\ UNCHANGED pureVars
  /\ UNCHANGED serviceVars

\* U owns A; A may be shared with V; W has nothing to do with it.
PermissionUsers == { "U", "V", "W" }
ShareTables ==
  { << >>,
    << [ownerId |-> "U", sharedWithUserId |-> "V", serial |-> "A",
        permissions |-> JSONstringify(Arr(<< Str("control") >>))] >> }
ScopeLists == { << "read" >>, << "read", "write" >> }
KeyPermissions ==
  { [serials |-> << >>, scopes |-> << "read" >>],
    [serials |-> << >>, scopes |-> << "read", "write" >>],
    [serials |-> << "A" >>, scopes |-> << "read", "write" >>] }

PermissionInit ==
  /\ db = "open"
  /\ initPromise = "db"
  /\ rows = << >>
  /\ call = [c \in Calls |-> IdleCall]
  /\ stmt = [c \in Calls |-> NoStmt]
  /\ now = 0
  /\ uncaught = FALSE
  /\ lastWrite = NoWrite
  /\ PureIdle
  /\ WatchdogIdle
  /\ BridgeIdle
  /\ deviceOwners = << [userId |-> "U", serial |-> "A"] >>
  /\ deviceShares \in ShareTables
  /\ weatherCache = << >>
  /\ pending = << >>
  /\ recon = IdleRecon
  /\ deviceChanged = FALSE
  /\ settled = NoSnapshot

PermissionNext ==
  \/ \E c \in Calls, userId \in PermissionUsers, requiredScopes \in ScopeLists,
        permissions \in KeyPermissions :
       CheckCall(c, userId, "A", requiredScopes, permissions)
  \/ \E c \in Calls : CheckOwner(c)
  \/ \E c \in Calls : CheckShared(c)

SpecPermission == PermissionInit /\ [][PermissionNext]_vars

\* The user of the call neither owns the serial nor has it shared.
Stranger(check) ==
  /\ getDeviceOwner(check.serial) = NoRow
       \/ getDeviceOwner(check.serial).userId # check.userId
  /\ SharedRow(check.userId, check.serial) = NoRow

\* C38: no call of checkApiKeyPermission is left waiting for ever, and a
\* call for a user who neither owns the serial nor has it shared completes
\* with false.
C38_PermissionCheckCompletes ==
  \A c \in Calls :
    /\ call[c].pc # "hung"
    /\ (call[c].pc = "resolved" /\ Stranger(call[c]))
         => call[c].result = FALSE

\* ------------------------------------------------------------------------
\* mergeValues applied twice
\* ------------------------------------------------------------------------
\* C39: merging the same incoming value into the result of the merge gives
\* the result again, and the text a second upsertState of the same value
\* stores holds the value the first one stored.
C39_MergeIsIdempotent ==
  /\ pStep \in { "merged", "preserved", "text" }
       => mergeValues(pMerged, pIncoming) = pMerged
  /\ pStep = "again" => JSONparse(pText) = pCurrent

\* {eco: {leaf: true}} written a second time over the stored
\* {eco: {mode: "manual-eco", leaf: true}}.
C39_Witness ==
  /\ pStep = "again"
  /\ pIncoming = WEcoLeaf
  /\ pCurrent =
       Obj([eco |-> Obj([mode |-> Str("manual-eco"), leaf |-> Bool(TRUE)])])
  /\ JSONparse(pText) = pCurrent
  /\ mergeValues(pCurrent, pIncoming) = pCurrent

\* ------------------------------------------------------------------------
\* SQLite3Service.syncUserWeatherFromDevice
\* ------------------------------------------------------------------------
WeatherRow(postalCode, country, fetchedAt, text) ==
  [postalCode |-> postalCode, country |-> country, fetchedAt |-> fetchedAt,
   data |-> text]

\* SQLite3Service.getWeather: the row of (postalCode, country) with its data
\* parsed, or null.
getWeather(postalCode, country) ==
  LET found ==
        { i \in DOMAIN weatherCache :
            /\ weatherCache[i].postalCode = postalCode
            /\ weatherCache[i].country = country }
  IN IF found = {} THEN Null
     ELSE LET row == weatherCache[Min(found)]
          IN Obj([data |-> JSONparse(row.data),
                  fetchedAt |-> Num(row.fetchedAt)])

\* Variant that passes the device's country on as it is stored.
countryOrDefaultRaw(value) == GetProp(value, "country")

\* deviceState.value.country || "US"
countryOrDefault(value) ==
  IF ToBoolean(GetProp(value, "country")) THEN GetProp(value, "country")
  ELSE Str("US")

\* `${postalCode},${country}`
locationKey(postalCode, country) ==
  ToStringValue(postalCode) \o "," \o ToStringValue(country)

\* What a run leaves in the activation when it returns.
Returned(activation) ==
  [pc |-> "idle", runs |-> activation.runs + 1,
   userId |-> activation.userId, nowMs |-> activation.nowMs]

\* syncUserWeatherFromDevice(userId) begins: nowMs, the prefix stripped, the
\* owned devices, and the early return of a user without devices.
SyncUserWeatherFromDevice(userId) ==
  /\ recon.pc = "idle"
  /\ recon.runs < MaxRuns
  /\ db = "open"
  /\ pending = << >>
  /\ LET id == StripUserPrefix(userId)
         ownedDevices == getOwnerDevices(id)
         begun == [pc |-> "postal", runs |-> recon.runs, userId |-> id,
                   nowMs |-> now, ownedDevices |-> ownedDevices, i |-> 1]
     IN recon' = IF Len(ownedDevices) = 0 THEN Returned(begun) ELSE begun
  /\ UNCHANGED << rows, now, lastWrite, deviceOwners, deviceShares,
                  weatherCache, pending, deviceChanged, settled >>
  /\ UNCHANGED restOfRecon

\* One turn of the first loop: await getState(serial, deviceKey); the loop
\* is left at the first device whose value has a postal_code.
FindPostalCode ==
  /\ recon.pc = "postal"
  /\ LET serial == recon.ownedDevices[recon.i]
         deviceState == getState(rows, serial, DeviceKey(serial))
         found ==
           /\ deviceState # NoState
           /\ ToBoolean(deviceState.value)
           /\ ToBoolean(GetProp(deviceState.value, "postal_code"))
     IN /\ deviceState # SyntaxError
        /\ recon' =
             IF found
             THEN [pc |-> "weather",
                   postalCode |-> GetProp(deviceState.value, "postal_code"),
                   country |-> countryOrDefault(deviceState.value)] @@ recon
             ELSE IF recon.i = Len(recon.ownedDevices) THEN Returned(recon)
             ELSE [recon EXCEPT !.i = @ + 1]
  /\ UNCHANGED << rows, now, lastWrite, deviceOwners, deviceShares,
                  weatherCache, pending, deviceChanged, settled >>
  /\ UNCHANGED restOfRecon

\* await getWeather(postalCode, country), the entry of the location key and
\* the object to save.
FetchWeather ==
  /\ recon.pc = "weather"
  /\ LET weatherData ==
           getWeather(ToStringValue(recon.postalCode),
                      ToStringValue(recon.country))
         weatherInfo ==
           GetProp(GetProp(weatherData, "data"),
                   locationKey(recon.postalCode, recon.country))
     IN recon' =
          IF ~ToBoolean(weatherData) THEN Returned(recon)
          ELSE IF ~ToBoolean(weatherInfo)
                  \/ ~ToBoolean(GetProp(weatherInfo, "current"))
          THEN Returned(recon)
          ELSE [pc |-> "user", i |-> 1,
                weatherDataToSave |->
                  Obj([current |-> GetProp(weatherInfo, "current"),
                       location |-> GetProp(weatherInfo, "location"),
                       updatedAt |-> Num(recon.nowMs)])] @@ recon
  /\ UNCHANGED << rows, now, lastWrite, deviceOwners, deviceShares,
                  weatherCache, pending, deviceChanged, settled >>
  /\ UNCHANGED restOfRecon

\* One turn of the second loop, up to the call of upsertState:
\* await getState(serial, userStateKey), { ...currentValue, weather } and
\* the revision (existingUserState.object_revision || 0) + 1.
ReadWeatherUserState ==
  /\ recon.pc = "user"
  /\ LET serial == recon.ownedDevices[recon.i]
         existingUserState == getState(rows, serial, UserKey(recon.userId))
         currentValue ==
           IF ToBoolean(existingUserState.value) THEN existingUserState.value
           ELSE EmptyObj
     IN /\ existingUserState # SyntaxError
        /\ recon' =
             IF existingUserState # NoState
             THEN [pc |-> "save",
                   value |->
                     Spread(currentValue,
                            Obj([weather |-> recon.weatherDataToSave])),
                   revision |-> existingUserState.object_revision + 1]
                  @@ recon
             ELSE IF recon.i = Len(recon.ownedDevices) THEN Returned(recon)
             ELSE [recon EXCEPT !.i = @ + 1]
  /\ UNCHANGED << rows, now, lastWrite, deviceOwners, deviceShares,
                  weatherCache, pending, deviceChanged, settled >>
  /\ UNCHANGED restOfRecon

\* await this.upsertState(serial, userStateKey, revision, nowMs, value):
\* the statement is handed to the driver and the loop goes on.
SaveUserWeather ==
  /\ recon.pc = "save"
  /\ LET serial == recon.ownedDevices[recon.i] IN
     pending' =
       Append(pending,
              upsertStatement(rows, serial, UserKey(recon.userId),
                              recon.revision, recon.nowMs, recon.value,
                              "syncUserWeatherFromDevice"))
  /\ recon' =
       IF recon.i = Len(recon.ownedDevices) THEN Returned(recon)
       ELSE [recon EXCEPT !.pc = "user", !.i = @ + 1]
  /\ UNCHANGED << rows, now, lastWrite, deviceOwners, deviceShares,
                  weatherCache, deviceChanged, settled >>
  /\ UNCHANGED restOfRecon

\* What the devices, the user objects and the weather table hold when the
\* weather is first synchronised. The data of a weather row is keyed by
\* "postalCode,country", the key syncUserWeatherFromDevice reads.
WeatherOf(temp, city) ==
  Obj([current |-> Obj([temp |-> Num(temp)]),
       location |-> Obj([city |-> Str(city)])])

PostalARows ==
  { << >>,
    << Row("A", "device.A", 1, 0,
           JSONstringify(Obj([postal_code |-> Str("")])), 0) >>,
    << Row("A", "device.A", 1, 0,
           JSONstringify(Obj([postal_code |-> Str("P1")])), 0) >> }
PostalBRows ==
  { << >>,
    << Row("B", "device.B", 1, 0,
           JSONstringify(Obj([postal_code |-> Str("P2"),
                              country |-> Str("CA")])), 0) >> }
WeatherUserARows ==
  { << >>,
    << Row("A", "user.U", 3, 0,
           JSONstringify(Obj([name |-> Str("home")])), 0) >>,
    << Row("A", "user.U", 3, 0,
           JSONstringify(Obj([name |-> Str("home"),
                              weather |->
                                SetProp(WeatherOf(1, "X"), "updatedAt",
                                        Num(0))])), 0) >> }
WeatherUserBRows ==
  { << >>,
    << Row("B", "user.U", 1, 0,
           JSONstringify(Obj([away |-> Bool(FALSE)])), 0) >> }

WeatherTables ==
  { a \o b \o ua \o ub :
      a \in PostalARows, b \in PostalBRows, ua \in WeatherUserARows,
      ub \in WeatherUserBRows }

WeatherOwners ==
  { << >>,
    << [userId |-> "U", serial |-> "A"], [userId |-> "U", serial |-> "B"] >>,
    << [userId |-> "U", serial |-> "B"], [userId |-> "U", serial |-> "A"] >>,
    << [userId |-> "U", serial |-> "A"], [userId |-> "V", serial |-> "B"] >> }

CacheP1 ==
  << WeatherRow("P1", "US", 0,
                JSONstringify(Obj("P1,US" :> WeatherOf(2, "X")))) >>
CacheP2 ==
  << WeatherRow("P2", "CA", 0,
                JSONstringify(Obj("P2,CA" :> WeatherOf(3, "Y")))) >>
WeatherCaches == { << >>, CacheP1, CacheP2, CacheP1 \o CacheP2 }

WeatherUsers == { "U", "user_U", "V" }

WeatherInit ==
  /\ db = "open"
  /\ initPromise = "db"
  /\ rows \in WeatherTables
  /\ call = [c \in Calls |-> IdleCall]
  /\ stmt = [c \in Calls |-> NoStmt]
  /\ now = 0
  /\ uncaught = FALSE
  /\ lastWrite = NoWrite
  /\ PureIdle
  /\ WatchdogIdle
  /\ BridgeIdle
  /\ deviceOwners \in WeatherOwners
  /\ deviceShares = << >>
  /\ weatherCache \in WeatherCaches
  /\ pending = << >>
  /\ recon = IdleRecon
  /\ deviceChanged = FALSE
  /\ settled = NoSnapshot

WeatherNext ==
  \/ Pause
  \/ FindPostalCode
  \/ FetchWeather
  \/ ReadWeatherUserState
  \/ SaveUserWeather
  \/ \E userId \in WeatherUsers : SyncUserWeatherFromDevice(userId)
  \/ \E j \in 1 .. MaxRuns * 2 : DriverRun(j)

SpecWeather == WeatherInit /\ [][WeatherNext]_vars

\* The serials the user owns, in the order of the table.
OwnedBy(userId) ==
  LET mine == SelectSeq(deviceOwners, LAMBDA r : r.userId = userId)
  IN [i \in 1 .. Len(mine) |-> mine[i].serial]

\* The value stored under (serial, objectKey), undefined without a row.
StoredValue(serial, objectKey) ==
  LET found == { i \in DOMAIN rows : /\ rows[i].serial = serial
                                     /\ rows[i].object_key = objectKey }
  IN IF found = {} THEN Undefined ELSE JSONparse(rows[Min(found)].value)

PostalCodeOf(serial) ==
  GetProp(StoredValue(serial, "device." \o serial), "postal_code")

HasPostalCode(serial) ==
  PostalCodeOf(serial).k = "str" /\ PostalCodeOf(serial).v # ""

SomePostalCode(userId) ==
  \E i \in DOMAIN OwnedBy(userId) : HasPostalCode(OwnedBy(userId)[i])

\* The first owned device that has a postal code.
FirstWithPostalCode(userId) ==
  LET owned == OwnedBy(userId)
  IN owned[Min({ i \in DOMAIN owned : HasPostalCode(owned[i]) })]

\* (postal_code, country or "US") of that device
PlaceOf(userId) ==
  LET serial == FirstWithPostalCode(userId)
      country == GetProp(StoredValue(serial, "device." \o serial), "country")
  IN << PostalCodeOf(serial).v,
        IF country.k = "str" /\ country.v # "" THEN country.v ELSE "US" >>

CachedFor(place) ==
  { i \in DOMAIN weatherCache :
      /\ weatherCache[i].postalCode = place[1]
      /\ weatherCache[i].country = place[2] }

WeatherCached(userId) ==
  SomePostalCode(userId) /\ CachedFor(PlaceOf(userId)) # {}

\* {current, location, updatedAt} of the cached weather of the user's place
WeatherToWrite(userId, updatedAt) ==
  LET place == PlaceOf(userId)
      data == JSONparse(weatherCache[Min(CachedFor(place))].data)
      entry == GetProp(data, place[1] \o "," \o place[2])
  IN Obj([current |-> GetProp(entry, "current"),
          location |-> GetProp(entry, "location"),
          updatedAt |-> Num(updatedAt)])

\* The call has returned and the driver has executed its statements.
WeatherSynced ==
  recon.pc = "idle" /\ recon.runs >= 1 /\ pending = << >>

HasUserObject(serial, userId) ==
  \E i \in DOMAIN rows : /\ rows[i].serial = serial
                         /\ rows[i].object_key = "user." \o userId

====
